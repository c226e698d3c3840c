----------------------------- MODULE MCOpenClient -----------------------------
(* Three tries and four registry entry IDs: the connection, its listings and *)
(* clients of other processes that come and go beside it.                    *)
EXTENDS OpenClient

===============================================================================
