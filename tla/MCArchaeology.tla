--------------------------- MODULE MCArchaeology ----------------------------
(* A tree with HolyC files that changes to another with HolyC files, or to *)
(* one without.                                                            *)
EXTENDS Archaeology

MCTargets == {"losethos", "templeos"}
LosesHoly == <<TRUE, FALSE>>
OneVersion == <<TRUE>>
=============================================================================
