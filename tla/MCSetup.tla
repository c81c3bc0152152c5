-------------------------------- MODULE MCSetup --------------------------------
(* Setup for TLC. *)
EXTENDS Setup, TLC

(* An Apple machine and one with an NVIDIA card.                           *)
Apple == [mlx |-> TRUE, cuda |-> FALSE]
Nvidia == [mlx |-> FALSE, cuda |-> TRUE]

MCPicks == {<<>>, ("whisper" :> "mlx") @@ ("nb-whisper" :> "cpu"), "whisper" :> "cuda"}

(* No file, but an install; a file of the first format; one with a family  *)
(* /setup does not manage, on a backend the catalog never had.             *)
MCCheckouts ==
  {[host |-> Apple, saved |-> [version |-> 0, choices |-> <<>>],
    stamp |-> <<[extras |-> {<<"whisper", "mlx">>, <<"whisper", "live">>}, version |-> 1]>>],
   [host |-> Nvidia, saved |-> [version |-> 1, choices |-> "whisper" :> TRUE], stamp |-> <<>>],
   [host |-> Apple, saved |-> [version |-> 2, choices |-> "moonshine" :> Choice(TRUE, "cuda", TRUE)],
    stamp |-> <<>>]}
=============================================================================
