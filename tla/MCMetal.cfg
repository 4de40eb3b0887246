CONSTANTS
    PREFERRED_TILE = 2
    MATRIX_TILE = 1
    SIMD_WIDTH = 1
    Shapes <- MCShapes
    Batches = {2, 3}
    Configs <- MCConfigs
    None = None
    Garbage = Garbage
SPECIFICATION Spec
INVARIANTS StageRaceFree BarrierUniform OneWriter
PROPERTIES ImplementsMatmul Answered
