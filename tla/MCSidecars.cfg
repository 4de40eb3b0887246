CONSTANTS
    FULL_CODE_SLOTS = 1
    ALIGNMENT = 8
    HEADER_BYTES = 8
    Shape <- MCShape
    TensorOrder <- MCTensorOrder
    LAYERS = 2
    LAUNCHES = 3
    STREAM_ALIGNMENT = 4
    AttentionLaunches <- MCAttention
    RecurrentLaunches <- MCRecurrent
    Release <- MCRelease
    M_TILE = 2
    ZeroScale = "zero"
    Damages <- MCDamages
    MAX_DAMAGE = 1
    KEY_HEADS = 2
    VALUE_HEADS = 6
    VALUE_HEAD_DIM = 8
    Census <- MCCensus
    ModuleOf <- MCModuleOf
    WEIGHTS_PER_CHUNK = 16
    MAX_WEIGHT_DIFFERENCE = 1
    NaN = NaN
    NegativeZero = NegativeZero
    LogNegate <- MCLogNegate
    Gguf <- MCGguf
    Checkpoints <- MCCheckpoints
SPECIFICATION MCSpec
INVARIANTS EvidenceComposes SoundChainPasses PublishedIsWhole CrosscheckSound
CHECK_DEADLOCK FALSE
