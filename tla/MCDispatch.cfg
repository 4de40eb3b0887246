CONSTANTS
    PREFERRED_TILE = 256
    MATRIX_TILE = 8
    SIMD_WIDTH = 32
    Layouts <- MCLayouts
    MAX_BATCH = 130
    SPLIT_K_THREADGROUPS = 800
    GPU_CORES = 40
    GEMM_MIN_WAVES = 2
    GEMM_WIDE_BLOCK_WAVES = 3
    GEMM_MIN_BATCH = 16
    GEMM_LARGE_MIN_BATCH = 32
    LUT23_MAX_BATCH_TILE = 4
SPECIFICATION Spec
INVARIANTS DispatchAccepted PartialSumsBounded ShippedIsMeasured
CHECK_DEADLOCK FALSE
