------------------------------ MODULE MCWebAuth ------------------------------
(* Instance of WebAuth for TLC: two tabs, one of them at a page that needs a user. *)
EXTENDS WebAuth, TLC

CONSTANTS t1, t2

OneOfEach == t1 :> "private" @@ t2 :> "public"

===============================================================================
