-------------------------- MODULE MCWeddingUpload --------------------------
(* Small instances of WeddingUpload. *)
EXTENDS WeddingUpload

CONSTANTS photo, video, anna

TwoUploads == {photo, video}
OneVideo == {video}
BothOfAnna == [u \in TwoUploads |-> anna]
=============================================================================
