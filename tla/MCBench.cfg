CONSTANTS
    Visitors = {v1, v2}
    v1 = v1
    v2 = v2
    Self = Self
    Child = Child
    MAX_UNITS = 1
    MAX_FOREIGN_SHARE <- MCShare
    ROUNDS = 2
    ROUND_ATTEMPTS = 2
    MAX_POLLS = 1
    Census <- MCCensus
    Models <- MCModels
    BATCHES <- MCBatches
    SITU_ROUNDS = 2
    ARM <- MCArm
    LEAST = 100
    Variants <- MCVariants
    Cases <- MCCases
    GATHERS = 2
    TRIALS = 2
    WARMUP_SAMPLES = 2
    Running = {"isolated", "paired", "keep-one", "whole-pass", "bucket", "ops", "split_k"}
    PREFERRED_TILE = 256
    MATRIX_TILE = 8
    SIMD_WIDTH = 32
    SPLIT_K_THREADGROUPS = 800
    GPU_CORES = 40
    GEMM_MIN_WAVES = 2
    GEMM_WIDE_BLOCK_WAVES = 3
    GEMM_MIN_BATCH = 16
    GEMM_LARGE_MIN_BATCH = 32
    LUT23_MAX_BATCH_TILE = 4
SPECIFICATION Spec
INVARIANTS VoidsDeserved ResidentsVoid PlacesSpread RoundsPaired PairsComparable
PROPERTIES WarmThenMeasured Ends
CHECK_DEADLOCK FALSE
