------------------------------ MODULE Sidecars ------------------------------
(***************************************************************************)
(* The tools that turn the released GGUF into the sidecars the CUDA work   *)
(* runs on, and the evidence they leave: inspect_model, pack_model,        *)
(* verify_model, lut23_reorder (reorder, verify, benchmark manifest),      *)
(* v2_traversal, convert_gguf and verify_distributed_gguf.                 *)
(* Each is a command of its own, started by hand in any order and as often *)
(* as wanted.  A writer fills a temporary file tensor by tensor, seals it, *)
(* renames it over the output and then writes its record; it can be killed *)
(* between any two of these.  The others only read, and are one step.      *)
(* A SHA-256 is the value it was taken of.  A damaged byte keeps a file's  *)
(* size, so the checks of sizes hold throughout and are left out.          *)
(***************************************************************************)
EXTENDS Lut23Layout, Integers, Sequences, SequencesExt, FiniteSets

CONSTANTS
    Shape,          \* Q2_0 tensor, a pair of layer (-1: none) and suffix -> [rows, groups]
    TensorOrder,    \* their names in the order of the GGUF
    LAYERS,         \* decoder layers (64)
    LAUNCHES,       \* launches of a pass (497)
    STREAM_ALIGNMENT,   \* of a launch's extent in a stream (256)
    AttentionLaunches, RecurrentLaunches,   \* the suffixes a layer launches, in order
    Release,        \* the model whose SHA-256 is MODEL_SHA256: [q2, plain]
    M_TILE, ZeroScale,
    Damages,        \* the bytes that may go bad: [file, tensor, cell, slot, byte]
    MAX_DAMAGE      \* how often that happens (bound)

Names == DOMAIN Shape
Output == <<-1, "output">>
Excluded == {<<-1, "token_embd">>}

ASSUME TensorsAssumption ==
    /\ TensorOrder \in Seq(Names)
    /\ ToSet(TensorOrder) = Names /\ IsInjective(TensorOrder)
    /\ \A t \in Names : Shape[t] \in [rows : Nat \ {0}, groups : Nat \ {0}]
    /\ M_TILE \in Nat \ {0}

\* A damaged byte of a block or a code is a byte.
ASSUME DamageAssumption ==
    /\ Damages \subseteq [file : {"model", "plain", "sidecar", "reordered", "gguf"},
                          tensor : Names, cell : Nat \X Nat, slot : Nat, byte : Byte]
    /\ MAX_DAMAGE \in Nat

VARIABLES
    model, sidecar, reordered, gguf,        \* the files of weights
    audit, packed, verified, reverified,    \* the JSON records beside them
    traversal, distributed,
    job,            \* the writer that runs, with its temporary file; Idle
    damage, raised  \* bytes gone bad; tools an exception ended before any had

files == <<model, sidecar, reordered, gguf>>
records == <<audit, packed, verified, reverified, traversal, distributed>>
vars == <<files, records, job, damage, raised>>

Missing == [missing |-> TRUE]
Idle == [tool |-> "none"]

CellsOf(t) == Cells(Shape[t].rows, Shape[t].groups)
GroupsOf(t) == Shape[t].rows * Shape[t].groups

----------------------------------------------------------------------------
(* What the tools compute of a tensor. *)

Logical(m, t) == [c \in CellsOf(t) |-> DecodeQ2(m.q2[t][c])]
ScaleBits(m, t) == [c \in CellsOf(t) |-> m.q2[t][c].scale]
Encoded(m, t) == [c \in CellsOf(t) |-> EncodeTq1(m.q2[t][c].scale, DecodeQ2(m.q2[t][c]))]

TernaryModel(m) == \A t \in Names : \A c \in CellsOf(t) : Ternary(DecodeQ2(m.q2[t][c]))

\* The release is ternary.
ASSUME ReleaseAssumption ==
    /\ \A t \in Names : \A c \in CellsOf(t) :
           \A i \in 0..BLOCK_SIZE \div 4 - 1 : Release.q2[t][c].quants[i] \in Byte
    /\ TernaryModel(Release)

PackedOffset[i \in 1..Len(TensorOrder)] ==
    AlignUp(IF i = 1 THEN HEADER_BYTES
            ELSE PackedOffset[i - 1] + GroupsOf(TensorOrder[i - 1]) * BLOCK_BYTES)

ReorderedLayout[i \in 1..Len(TensorOrder)] ==
    LET shape == Shape[TensorOrder[i]]
        start == IF i = 1 THEN HEADER_BYTES ELSE ReorderedLayout[i - 1].end
    IN  TensorLayout(shape.rows, shape.groups, start, M_TILE)

\* read_sidecar: a header, a manifest behind every tensor, and extents in order.
ReadSidecar(file) ==
    /\ file.sealed
    /\ \A i \in 1..Len(TensorOrder) :
        LET here == file.manifest[TensorOrder[i]]
            before == IF i = 1 THEN HEADER_BYTES
                      ELSE LET last == file.manifest[TensorOrder[i - 1]] IN last.offset + last.bytes
        IN  /\ here.offset % ALIGNMENT = 0 /\ here.offset >= AlignUp(before)
            /\ here.bytes = GroupsOf(TensorOrder[i]) * BLOCK_BYTES
            /\ here.offset + here.bytes <= file.manifest_offset

Raise(tool) ==
    /\ raised' = IF damage = 0 THEN raised \cup {tool} ELSE raised
    /\ job' = Idle
    /\ UNCHANGED <<files, records, damage>>

Present(file) == file # Missing
AtRest == job = Idle

----------------------------------------------------------------------------
(* The writers. *)

Begin(tool, out) ==
    /\ job' = [tool |-> tool, stage |-> "write", todo |-> TensorOrder, out |-> out]
    /\ UNCHANGED <<files, records, damage, raised>>

\* Only the release is packed, and only when the audit found no fourth symbol in it.
PackStart ==
    /\ AtRest /\ Present(audit)
    /\ IF audit.pass /\ model = Release
       THEN Begin("pack", [sealed |-> FALSE, source |-> model, tensors |-> << >>])
       ELSE Raise("pack")

\* Mutant: the record of the packing is believed whenever there is one.
RecordedSource(from_record) == IF Present(packed) THEN packed.sidecar ELSE sidecar

\* _source_sha256: with --packing-result the hash is the record's, not the file's.
SourceOfReorder(from_record) == IF from_record THEN packed.sidecar ELSE sidecar

ReorderStart(from_record) ==
    /\ AtRest /\ Present(sidecar) /\ (from_record => Present(packed))
    /\ IF ReadSidecar(sidecar)
       THEN Begin("reorder", [sealed |-> FALSE, source |-> SourceOfReorder(from_record),
                              hashed |-> ~from_record, tensors |-> << >>])
       ELSE Raise("reorder")

\* Mutant: --skip-source-hash takes the sidecar's word for the model.
ConvertAccepts(skip_hash) == skip_hash \/ (model = Release /\ sidecar.source = model)

\* --skip-source-hash leaves out the comparison with the release, not the hash: the model
\* must still be the one the sidecar names.
ConvertReads(skip_hash) == (skip_hash \/ model = Release) /\ sidecar.source = model

ConvertStart(skip_hash) ==
    /\ AtRest /\ Present(sidecar)
    /\ IF ReadSidecar(sidecar) /\ ConvertReads(skip_hash)
       THEN Begin("convert", [sealed |-> FALSE, plain |-> model.plain, tensors |-> << >>])
       ELSE Raise("convert")

\* The pass over the model must find what the audit found.
PackRefuses(t) ==
    \/ \E c \in CellsOf(t) : ~Ternary(DecodeQ2(model.q2[t][c]))
    \/ Logical(model, t) # audit.tensors[t].logical
    \/ ScaleBits(model, t) # audit.tensors[t].scales

Content(t) ==
    LET rows == Shape[t].rows
        groups == Shape[t].groups
    IN  CASE job.tool = "pack" -> Encoded(model, t)
          [] job.tool = "reorder" ->
                [codes |-> ReorderCodes(sidecar.tensors[t], rows, groups, M_TILE),
                 scales |-> ReorderScales(sidecar.tensors[t], rows, groups, M_TILE, ZeroScale)]
          [] job.tool = "convert" -> sidecar.tensors[t]

\* A mapping with one more entry.
With(f, key, value) ==
    [k \in DOMAIN f \cup {key} |-> IF k = key THEN value ELSE f[k]]

WriteTensor ==
    /\ ~AtRest /\ job.stage = "write" /\ job.todo # << >>
    /\ LET t == Head(job.todo)
       IN  IF job.tool = "pack" /\ PackRefuses(t) THEN Raise("pack")
           ELSE /\ job' = [job EXCEPT !.todo = Tail(@),
                                      !.out.tensors = With(@, t, Content(t))]
                /\ UNCHANGED <<files, records, damage, raised>>

PackManifest ==
    [t \in Names |->
        LET i == CHOOSE i \in 1..Len(TensorOrder) : TensorOrder[i] = t
        IN  [logical |-> Logical(model, t), scales |-> ScaleBits(model, t),
             payload |-> job.out.tensors[t],
             offset |-> PackedOffset[i], bytes |-> GroupsOf(t) * BLOCK_BYTES]]

LastPacked == Len(TensorOrder)

ReorderManifest ==
    [t \in Names |-> ReorderedLayout[CHOOSE i \in 1..Len(TensorOrder) : TensorOrder[i] = t]]

\* The manifest behind the tensors, then the header over its placeholder (a GGUF has its
\* header first, and is closed), and the file is complete.
Sealed(out) ==
    CASE job.tool = "pack" ->
            [sealed |-> TRUE, source |-> out.source, tensors |-> out.tensors,
             manifest |-> PackManifest,
             manifest_offset |-> PackedOffset[LastPacked]
                                 + GroupsOf(TensorOrder[LastPacked]) * BLOCK_BYTES]
      [] job.tool = "reorder" ->
            [sealed |-> TRUE, source |-> out.source, hashed |-> out.hashed,
             tensors |-> out.tensors, manifest |-> ReorderManifest]
      [] job.tool = "convert" -> [out EXCEPT !.sealed = TRUE]

Seal ==
    /\ ~AtRest /\ job.stage = "write" /\ job.todo = << >>
    /\ job' = [job EXCEPT !.stage = "sealed", !.out = Sealed(@)]
    /\ UNCHANGED <<files, records, damage, raised>>

\* Mutant: the rename comes before the header.
ReadyEarly == job.stage \in {"write", "sealed"} /\ job.todo = << >>

Ready == job.stage = "sealed"

\* os.replace; with the rename the file is whole or still the old one. What the reorder
\* and the conversion record is read by no other tool here.
Publish ==
    /\ ~AtRest /\ Ready
    /\ sidecar' = IF job.tool = "pack" THEN job.out ELSE sidecar
    /\ reordered' = IF job.tool = "reorder" THEN job.out ELSE reordered
    /\ gguf' = IF job.tool = "convert" THEN job.out ELSE gguf
    /\ job' = IF job.tool = "pack" THEN [job EXCEPT !.stage = "published"] ELSE Idle
    /\ UNCHANGED <<model, records, damage, raised>>

\* The packer reads its output again for the hash it records.
Record ==
    /\ ~AtRest /\ job.stage = "published"
    /\ packed' = [sidecar |-> sidecar]
    /\ job' = Idle
    /\ UNCHANGED <<files, audit, verified, reverified, traversal, distributed, damage, raised>>

\* The temporary file stays behind, and the next run of the tool unlinks it.
Kill ==
    /\ ~AtRest
    /\ job' = Idle
    /\ UNCHANGED <<files, records, damage, raised>>

----------------------------------------------------------------------------
(* The readers. *)

\* The symbols are counted whatever they are: a fourth one fails the gate, and is recorded.
Inspect ==
    /\ AtRest
    /\ audit' = [pass |-> TernaryModel(model),
                 tensors |-> [t \in Names |-> [logical |-> Logical(model, t),
                                               scales |-> ScaleBits(model, t)]]]
    /\ UNCHANGED <<files, packed, verified, reverified, traversal, distributed,
                   job, damage, raised>>

Unpacked(t) == [c \in CellsOf(t) |-> DecodeTq1(sidecar.tensors[t][c])]
PackedScales(t) == [c \in CellsOf(t) |-> sidecar.tensors[t][c].scale]

\* Mutant: the verifier believes the manifest about the payload.
VerifyTrusts(t) ==
    /\ Logical(model, t) = sidecar.manifest[t].logical
    /\ ScaleBits(model, t) = sidecar.manifest[t].scales

\* What ends the verification before there is a verdict: a byte that is no code (raised
\* while decoding), or a digest that is not the manifest's.
VerifyReads(t) ==
    /\ \A c \in CellsOf(t) : Legal(sidecar.tensors[t][c])
    /\ Logical(model, t) = sidecar.manifest[t].logical
    /\ ScaleBits(model, t) = sidecar.manifest[t].scales
    /\ sidecar.tensors[t] = sidecar.manifest[t].payload

VerifyModel ==
    /\ AtRest /\ Present(sidecar)
    /\ IF /\ model = Release /\ ReadSidecar(sidecar) /\ sidecar.source = model
          /\ \A t \in Names : VerifyReads(t)
       THEN /\ verified' = [pass |-> \A t \in Names : /\ Logical(model, t) = Unpacked(t)
                                                     /\ ScaleBits(model, t) = PackedScales(t),
                            sidecar |-> sidecar]
            /\ UNCHANGED <<files, audit, packed, reverified, traversal, distributed,
                           job, damage, raised>>
       ELSE Raise("verify")

\* Mutant: a last tile that is not full is skipped, padding and all.
FullTilesMatch(t) ==
    \A i \in 0..Tiles(Shape[t].rows, M_TILE) - 1 :
        Cardinality(RowsIn(i, Shape[t].rows, M_TILE)) = M_TILE =>
            \A g \in 0..Shape[t].groups - 1, r \in 0..M_TILE - 1, s \in Slots :
                reordered.tensors[t].codes[i, g, s, r]
                    = sidecar.tensors[t][i * M_TILE + r, g].code[s]

\* Tile by tile: the codes and scales of the rows are the source's and no code is too
\* large, and the padding is zero.
TilesMatch(t) ==
    LET out == reordered.tensors[t]
    IN  \A i \in 0..Tiles(Shape[t].rows, M_TILE) - 1, g \in 0..Shape[t].groups - 1,
           r \in 0..M_TILE - 1 :
            IF r \in RowsIn(i, Shape[t].rows, M_TILE)
            THEN LET block == sidecar.tensors[t][i * M_TILE + r, g]
                 IN  /\ out.scales[i, g, r] = block.scale
                     /\ \A s \in Slots : out.codes[i, g, s, r] = block.code[s]
                                         /\ out.codes[i, g, s, r] <= MaxCode(s)
            ELSE out.scales[i, g, r] = ZeroScale /\ \A s \in Slots : out.codes[i, g, s, r] = 0

\* The files are compared with each other; the source named in the result is the one the
\* header names, and neither file is hashed. (.of is what lay at the path: not recorded.)
VerifyReordered ==
    /\ AtRest /\ Present(sidecar) /\ Present(reordered)
    /\ IF ReadSidecar(sidecar) /\ reordered.sealed
       THEN /\ reverified' = [pass |-> \A t \in Names : TilesMatch(t),
                              source |-> reordered.source, of |-> reordered]
            /\ UNCHANGED <<files, audit, packed, verified, traversal, distributed,
                           job, damage, raised>>
       ELSE Raise("reverify")

\* A layer with a query matrix is an attention layer, every other is recurrent.
LayerLaunches(layer) ==
    LET suffixes == IF <<layer, "attn_q">> \in Names THEN AttentionLaunches ELSE RecurrentLaunches
    IN  [i \in 1..Len(suffixes) |-> <<layer, suffixes[i]>>]

LaunchOrder == FlattenSeq([l \in 1..LAYERS |-> LayerLaunches(l - 1)]) \o <<Output>>

\* The release has the tensors that the launches read, and those that none reads.
ASSUME LaunchAssumption ==
    ToSet(LaunchOrder) \subseteq Names /\ Names \subseteq ToSet(LaunchOrder) \cup Excluded

\* Each launch reads the next extent of two streams, in bytes of the two formats.
StreamOffset(block_bytes) ==
    LET from[i \in 1..Len(LaunchOrder)] ==
            IF i = 1 THEN 0 ELSE from[i - 1] + GroupsOf(LaunchOrder[i - 1]) * block_bytes
    IN  from

StreamsAligned ==
    \A bytes \in {SOURCE_BLOCK_BYTES, BLOCK_BYTES} : \A i \in 1..Len(LaunchOrder) :
        StreamOffset(bytes)[i] % STREAM_ALIGNMENT = 0

\* The release has as many launches as it should, each aligned in both streams.
ASSUME StreamAssumption == Len(LaunchOrder) = LAUNCHES /\ StreamsAligned

\* With --skip-file-hashes neither the model nor the sidecar is read: the records stand
\* for them.
TraversalAccepts(skip_hashes) ==
    /\ ReadSidecar(sidecar) /\ sidecar.source = Release /\ verified.pass
    /\ skip_hashes \/ (model = Release /\ sidecar = verified.sidecar)
    /\ ToSet(LaunchOrder) \subseteq Names /\ Names \subseteq ToSet(LaunchOrder) \cup Excluded
    /\ Len(LaunchOrder) = LAUNCHES /\ StreamsAligned
    /\ \A t \in ToSet(LaunchOrder) :
        LET audited == audit.tensors[t]
            entry == sidecar.manifest[t]
            released == verified.sidecar.source
        IN  /\ audited.logical = entry.logical /\ audited.logical = Logical(released, t)
            /\ audited.scales = entry.scales /\ audited.scales = ScaleBits(released, t)

BuildTraversal(skip_hashes) ==
    /\ AtRest /\ Present(sidecar) /\ Present(audit) /\ Present(verified)
    /\ IF TraversalAccepts(skip_hashes)
       THEN /\ traversal' = [hashed |-> ~skip_hashes, sidecar |-> sidecar,
                rows |-> [i \in 1..Len(LaunchOrder) |->
                    [name |-> LaunchOrder[i], offset |-> sidecar.manifest[LaunchOrder[i]].offset,
                     q2_stream |-> StreamOffset(SOURCE_BLOCK_BYTES)[i],
                     tq1_stream |-> StreamOffset(BLOCK_BYTES)[i]]]]
            /\ UNCHANGED <<files, audit, packed, verified, reverified, distributed,
                           job, damage, raised>>
       ELSE Raise("traversal")

\* The payload against the digest in the sidecar's manifest, all else against the model.
VerifyDistributed ==
    /\ AtRest /\ Present(sidecar) /\ Present(gguf)
    /\ IF /\ ReadSidecar(sidecar)
          /\ \A t \in Names : gguf.tensors[t] = sidecar.manifest[t].payload
          /\ gguf.plain = model.plain
       THEN /\ distributed' = [pass |-> TRUE, of |-> gguf]
            /\ UNCHANGED <<files, audit, packed, verified, reverified, traversal,
                           job, damage, raised>>
       ELSE Raise("distributed")
----------------------------------------------------------------------------

\* Environment: one byte of one file changes, while no tool runs.
Damage(d) ==
    /\ AtRest /\ damage < MAX_DAMAGE
    /\ damage' = damage + 1
    /\ LET place == <<d.cell[1] \div M_TILE, d.cell[2], d.slot, d.cell[1] % M_TILE>>
       IN  CASE d.file = "model" ->
                  /\ model' = [model EXCEPT !.q2[d.tensor][d.cell].quants[d.slot] = d.byte]
                  /\ UNCHANGED <<sidecar, reordered, gguf>>
             [] d.file = "plain" ->
                  /\ model' = [model EXCEPT !.plain = d.byte]
                  /\ UNCHANGED <<sidecar, reordered, gguf>>
             [] d.file = "sidecar" ->
                  /\ Present(sidecar)
                  /\ sidecar' = [sidecar EXCEPT !.tensors[d.tensor][d.cell].code[d.slot] = d.byte]
                  /\ UNCHANGED <<model, reordered, gguf>>
             [] d.file = "reordered" ->
                  /\ Present(reordered)
                  /\ reordered' = [reordered EXCEPT !.tensors[d.tensor].codes[place] = d.byte]
                  /\ UNCHANGED <<model, sidecar, gguf>>
             [] d.file = "gguf" ->
                  /\ Present(gguf)
                  /\ gguf' = [gguf EXCEPT !.tensors[d.tensor][d.cell].code[d.slot] = d.byte]
                  /\ UNCHANGED <<model, sidecar, reordered>>
    /\ UNCHANGED <<records, job, raised>>

\* Environment: the model is downloaded again.
Download ==
    /\ AtRest /\ model # Release
    /\ model' = Release
    /\ UNCHANGED <<sidecar, reordered, gguf, records, job, damage, raised>>

Init ==
    /\ model = Release
    /\ sidecar = Missing /\ reordered = Missing /\ gguf = Missing
    /\ audit = Missing /\ packed = Missing /\ verified = Missing /\ reverified = Missing
    /\ traversal = Missing /\ distributed = Missing
    /\ job = Idle /\ damage = 0 /\ raised = {}

Next ==
    \/ Inspect
    \/ PackStart
    \/ \E from_record \in BOOLEAN : ReorderStart(from_record)
    \/ \E skip_hash \in BOOLEAN : ConvertStart(skip_hash)
    \/ WriteTensor
    \/ Seal
    \/ Publish
    \/ Record
    \/ Kill
    \/ VerifyModel
    \/ VerifyReordered
    \/ \E skip_hashes \in BOOLEAN : BuildTraversal(skip_hashes)
    \/ VerifyDistributed
    \/ \E d \in Damages : Damage(d)
    \/ Download

Spec == Init /\ [][Next]_vars

----------------------------------------------------------------------------
(* Properties. *)

\* The blocks of a tensor hold the release's codes and scales, in bytes a kernel may look up.
HoldsRelease(blocks, t) ==
    \A c \in CellsOf(t) :
        /\ Legal(blocks[c])
        /\ LutWeights(blocks[c]) = DecodeQ2(Release.q2[t][c])
        /\ blocks[c].scale = Release.q2[t][c].scale

\* The reordered file read back with restore_tensor_arrays, and its padding silent.
ReorderedHoldsRelease(file) ==
    \A t \in Names :
        LET out == file.tensors[t]
            rows == Shape[t].rows
        IN  /\ HoldsRelease(Restore(out.codes, out.scales, rows, Shape[t].groups, M_TILE), t)
            /\ \A x \in DOMAIN out.codes :
                x[4] \notin RowsIn(x[1], rows, M_TILE) => out.codes[x] = 0

PassedModel == Present(verified) /\ verified.pass

\* What the records together claim is so, whatever was damaged or killed in between (one
\* byte at most): a sidecar that passed verification, the reordered file whose passing
\* verification names that sidecar (unless its hash was taken from the packing record), the
\* sidecar of a traversal built with hashes, and a GGUF that passed, all hold the release.
EvidenceComposes ==
    /\ PassedModel => \A t \in Names : HoldsRelease(verified.sidecar.tensors[t], t)
    /\ PassedModel /\ Present(reverified) =>
        (reverified.pass /\ reverified.of.hashed /\ reverified.source = verified.sidecar
            => ReorderedHoldsRelease(reverified.of))
    /\ Present(traversal) =>
        (traversal.hashed => \A t \in Names : HoldsRelease(traversal.sidecar.tensors[t], t))
    /\ Present(distributed) =>
        /\ \A t \in Names : HoldsRelease(distributed.of.tensors[t], t)
        /\ distributed.of.plain = Release.plain

\* On the released model, while nothing is damaged, no tool ends with an exception and every verdict is a
\* pass, in whatever order they are run and whichever of them are killed.
SoundChainPasses ==
    /\ raised = {}
    /\ damage = 0 =>
        /\ Present(audit) => audit.pass
        /\ Present(verified) => verified.pass
        /\ Present(reverified) => reverified.pass

Whole(file) ==
    Present(file) => file.sealed /\ DOMAIN file.tensors = Names

\* Under a final name there is never anything but a complete file, and a sidecar there was
\* made of the release alone; its extents, and those of the reordered file, keep apart.
PublishedIsWhole ==
    /\ Whole(sidecar) /\ Whole(reordered) /\ Whole(gguf)
    /\ Present(sidecar) => sidecar.source = Release /\ ReadSidecar(sidecar)
    /\ Present(reordered) =>
        \A i \in 1..Len(TensorOrder) :
            LET here == reordered.manifest[TensorOrder[i]]
            IN  /\ here.codes_offset + here.codes_bytes <= here.scales_offset
                /\ i < Len(TensorOrder) =>
                    here.end <= reordered.manifest[TensorOrder[i + 1]].codes_offset
=============================================================================
