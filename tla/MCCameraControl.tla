--------------------------- MODULE MCCameraControl ---------------------------
(* Small instances of CameraControl: DMA channels and sizes are              *)
(* interchangeable.                                                          *)
EXTENDS CameraControl, TLC

CameraSymmetry == Permutations(Dmas) \cup Permutations(Sizes)
=============================================================================
