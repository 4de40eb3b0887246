------------------------------- MODULE InSitu -------------------------------
(* The tilings timed inside the graph that runs them (bench_in_situ.py): linear    *)
(* layers are stubbed or pinned to a configuration, the whole pass is timed, and   *)
(* a candidate is charged the difference from a reference pass of the same round.  *)
EXTENDS Harness, Candidates

CONSTANTS
    Census,         \* the shapes of the model: [label, layout, count]
    Models,         \* numbers of layers per shape that a loaded model may have
    BATCHES,        \* the batches that are measured
    SITU_ROUNDS,    \* rounds per block
    ARM,            \* bucket mode: the rung, and the threadgroups a shape must reach
    LEAST

VARIABLES
    model,      \* the layers that each shape of the census has in the loaded models
    layers,     \* for both models: what is in the place of each shape's layers
    place,      \* where the sweep is: [batch, block, round, turn], each from 1
    pair        \* the last two passes: [item, reference, variant]

situVars == <<model, layers, place, pair>>

\* The shapes of the census have labels of their own, none of them the bucket's name, and
\* the bucket moves them onto a rung of the sweep.
ASSUME SituAssumption ==
    /\ SITU_ROUNDS \in Nat
    /\ Census \in Seq(ToSet(Census)) /\ Census # <<>>
    /\ \A s, t \in DOMAIN Census : Census[s].label = Census[t].label => s = t
    /\ \A s \in DOMAIN Census : Census[s].label # "bucket"
    /\ BATCHES \in Seq(Nat \ {0}) /\ BATCHES # <<>>
    /\ ARM \in ToSet(LADDER)

Modes == {"keep-one", "whole-pass", "bucket"}

Shapes == DOMAIN Census

\* Layers are told apart by rows and columns.
Key(s) == <<Census[s].layout.rows, Census[s].layout.groups>>

\* What ships, for each batch and shape.
ShippedAt == [n \in DOMAIN BATCHES |->
                [s \in Shapes |-> Select(Census[s].layout, BATCHES[n])]]

Shipped(s) == ShippedAt[place.batch][s]

Nothing == [k \in {} |-> 0]

\* What a layer can be besides a packed layer pinned to a configuration.
Stub == [kernel |-> "stub"]
Loaded == [kernel |-> "loaded"]

----------------------------------------------------------------------------
\* Every linear is stubbed but those of the moved shapes. It is built from the layers
\* that were loaded, so nothing is left of what was forced before.
StubAllBut(moves) ==
    [s \in Shapes |-> IF Key(s) \in DOMAIN moves THEN moves[Key(s)] ELSE Stub]

\* Mutant: what the last pass forced stays where it is.
PinMoved(moves) ==
    [s \in Shapes |-> IF Key(s) \in DOMAIN moves THEN moves[Key(s)]
                      ELSE IF layers["packed"][s] \in {Loaded, Stub} THEN Shipped(s)
                      ELSE layers["packed"][s]]

\* Every linear is pinned to what the rule ships for the batch, but the moved shapes.
PinAll(moves) ==
    [s \in Shapes |-> IF Key(s) \in DOMAIN moves THEN moves[Key(s)] ELSE Shipped(s)]

InPlace(moves) == IF program = "keep-one" THEN StubAllBut(moves) ELSE PinAll(moves)

\* The shapes whose layers an item moves: keeps, or takes off what ships.
Takes(moves) ==
    {s \in Shapes : /\ Key(s) \in DOMAIN moves
                    /\ program = "keep-one" \/ moves[Key(s)] # Shipped(s)}

Layers(shapes) == SumFunctionOnSet(model, shapes)
CensusLayers(shapes) == SumFunctionOnSet([s \in Shapes |-> Census[s].count], shapes)

----------------------------------------------------------------------------
Item(name, shapes, config, on) ==
    [name |-> name, moves |-> [k \in {Key(s) : s \in shapes} |-> config], on |-> on]

\* The bucket of each batch.
Members == [n \in DOMAIN BATCHES |-> BucketMembers(Census, BATCHES[n], ARM, LEAST)]

MembersAt(labels) == {s \in Shapes : Census[s].label \in labels}

\* The blocks of a batch: one per shape, or the bucket.
Blocks(mode) == IF mode = "bucket" THEN 1 ELSE Len(Census)

Named(s, options) ==
    [i \in DOMAIN options |-> Item(BlockName(options[i]), {s}, options[i], "packed")]

\* keep-one: each tiling, and the affine control, which runs in the other model and
\* whose kept layers are as loaded.
KeepOneItems(n, s) ==
    Append(Named(s, LadderCandidates(Census[s].layout, BATCHES[n])),
           Item(<<"affine">>, {s}, Loaded, "affine"))

WholePassItems(n, s) == Named(s, DecisionCandidates(Census[s].layout, BATCHES[n]))

\* bucket: all of them at once, and each of them alone.
BucketItems(n) ==
    LET members == Members[n]
    IN  <<Item(<<"bucket">>, MembersAt({m.label : m \in ToSet(members)}), ARM, "packed")>>
            \o [i \in DOMAIN members |->
                  Item(<<members[i].label>>, MembersAt({members[i].label}), ARM, "packed")]

ItemsOf ==
    [mode \in Modes |-> [n \in DOMAIN BATCHES |-> [s \in 1..Blocks(mode) |->
        CASE mode = "keep-one" -> KeepOneItems(n, s)
          [] mode = "whole-pass" -> WholePassItems(n, s)
          [] mode = "bucket" -> BucketItems(n)]]]

\* What is measured in the current block.
Items == ItemsOf[program][place.batch][place.block]

CurrentItem == Rotate(Items, place.round - 1)[place.turn]

----------------------------------------------------------------------------
NoPair == [item |-> Item(<<"none">>, {}, Stub, "packed"), reference |-> <<>>, variant |-> <<>>]

SituInit ==
    /\ model = [s \in Shapes |-> Census[s].count]
    /\ layers = [m \in {"packed", "affine"} |-> [s \in Shapes |-> Loaded]]
    /\ place = [batch |-> 1, block |-> 1, round |-> 1, turn |-> 1]
    /\ pair = NoPair

LoadModel ==
    /\ program \in Modes /\ At("start")
    /\ model' \in Models
    /\ Go("warm")
    /\ UNCHANGED <<gateVars, readings, layers, place, pair>>

\* Before a batch every layer is stubbed or pinned, and the pinned ones are counted. A
\* bucket that no shape is in ends the program before that.
Warm ==
    /\ At("warm")
    /\ IF program = "bucket" /\ Members[place.batch] = <<>>
       THEN End("failed") /\ UNCHANGED layers
       ELSE /\ layers' = [m \in DOMAIN layers |->
                    IF m = "packed" \/ program = "keep-one" THEN InPlace(Nothing) ELSE layers[m]]
            /\ IF program # "keep-one" /\ Layers(Shapes) # CensusLayers(Shapes)
               THEN End("failed")
               ELSE Go("compile") /\ UNCHANGED readings
    /\ UNCHANGED <<gateVars, model, place, pair>>

\* Every candidate runs once, untimed, and the last one stays in place.
Compile ==
    /\ At("compile")
    /\ layers' = [m \in DOMAIN layers |->
                    LET run == SelectSeq(Items, LAMBDA i : i.on = m)
                    IN  IF run = <<>> THEN layers[m] ELSE InPlace(Last(run).moves)]
    /\ OpenWindow
    /\ readings' = <<>>
    /\ Go("reference")
    /\ UNCHANGED <<usage, model, place, pair>>

TakeReference ==
    /\ At("reference")
    /\ place.round <= SITU_ROUNDS
    /\ layers' = [layers EXCEPT ![CurrentItem.on] = InPlace(Nothing)]
    /\ Tick(Self)
    /\ pair' = [NoPair EXCEPT !.reference = layers'[CurrentItem.on]]
    /\ Go("variant")
    /\ UNCHANGED <<readings, model, place>>

\* The layers are moved and counted, and the difference is filed.
TakeVariant ==
    /\ At("variant")
    /\ Layers(Takes(CurrentItem.moves)) = CensusLayers(Takes(CurrentItem.moves))
    /\ layers' = [layers EXCEPT ![CurrentItem.on] = InPlace(CurrentItem.moves)]
    /\ Tick(Self)
    /\ pair' = [pair EXCEPT !.item = CurrentItem, !.variant = layers'[CurrentItem.on]]
    /\ File(place.round, place.turn, CurrentItem.name)
    /\ place' = IF place.turn < Len(Items) THEN [place EXCEPT !.turn = @ + 1]
                ELSE [place EXCEPT !.turn = 1, !.round = @ + 1]
    /\ Go("reference")
    /\ UNCHANGED model

CountDiffers ==
    /\ At("variant")
    /\ Layers(Takes(CurrentItem.moves)) # CensusLayers(Takes(CurrentItem.moves))
    /\ layers' = [layers EXCEPT ![CurrentItem.on] = InPlace(CurrentItem.moves)]
    /\ End("failed")
    /\ UNCHANGED <<gateVars, model, place, pair>>

\* The gate closes, and the block is summarised.
Summarise ==
    /\ At("reference")
    /\ place.round > SITU_ROUNDS
    /\ CloseWindow(Contended)
    /\ CASE Contended -> End("void") /\ UNCHANGED place
         [] ~Contended /\ place.block < Blocks(program) ->
              /\ place' = [place EXCEPT !.block = @ + 1, !.round = 1]
              /\ Go("compile") /\ UNCHANGED readings
         [] ~Contended /\ place.block = Blocks(program) /\ place.batch < Len(BATCHES) ->
              /\ place' = [batch |-> place.batch + 1, block |-> 1, round |-> 1, turn |-> 1]
              /\ Go("warm") /\ UNCHANGED readings
         [] OTHER -> End("reported") /\ UNCHANGED place
    /\ pair' = NoPair
    /\ UNCHANGED <<model, layers>>

SituNext ==
    LoadModel \/ Warm \/ Compile \/ TakeReference \/ TakeVariant
    \/ CountDiffers \/ Summarise

----------------------------------------------------------------------------
\* A difference is charged to what made it: the reference pass runs what it is said to
\* run, the other pass differs from it in the layers of the moved shapes alone, those
\* run what the difference is filed under, and they are as many as the census says.
PairsComparable ==
    LET moves == pair.item.moves
        changed == {s \in Shapes : pair.variant[s] # pair.reference[s]}
    IN  pair.variant # <<>> =>
          /\ \A s \in Shapes :
                /\ pair.reference[s] = IF program = "keep-one" THEN Stub ELSE Shipped(s)
                /\ Key(s) \in DOMAIN moves => pair.variant[s] = moves[Key(s)]
                /\ Key(s) \notin DOMAIN moves => s \notin changed
          /\ Layers(changed) = CensusLayers(changed)
=============================================================================
