------------------------------ MODULE MCShadow ------------------------------
(* The scenes of ShadowScenes, for the shadow calculation on its own.        *)
EXTENDS Shadow, ShadowScenes
=============================================================================
