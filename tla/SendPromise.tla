----------------------------- MODULE SendPromise -----------------------------
(***************************************************************************)
(* What shell_send promises its clients, without claims, leases, storage,  *)
(* acknowledgements or crashes (worker/index.ts, shared/mcp-write.ts): an  *)
(* operation takes effect at most once, by one of the attempts that name   *)
(* it, and "delivered" is said only of an operation that took effect       *)
(* completely, with the arguments the client asked about.                  *)
(***************************************************************************)
CONSTANTS Operations, Attempts, Prints

VARIABLES
    effect,   \* per operation: the attempts whose text reached the program, with what was typed
    told      \* per operation: what has been said of it, with the arguments it was said for

Effects == [attempt : Attempts, print : Prints, whole : BOOLEAN]
Sayings == [print : Prints, result : {"delivered", "uncertain"}]

PromiseInit ==
    /\ effect = [k \in Operations |-> {}]
    /\ told = [k \in Operations |-> {}]

\* The program reads the text of one attempt; no attempt before it had any effect.
Type(k, e) ==
    /\ effect[k] = {}
    /\ effect' = [effect EXCEPT ![k] = {e}]
    /\ UNCHANGED told

Tell(k, s) ==
    /\ s.result = "delivered" => \E e \in effect[k] : e.whole /\ e.print = s.print
    /\ told' = [told EXCEPT ![k] = @ \cup {s}]
    /\ UNCHANGED effect

PromiseNext ==
    \E k \in Operations :
        (\E e \in Effects : Type(k, e)) \/ (\E s \in Sayings : Tell(k, s))

Promise == PromiseInit /\ [][PromiseNext]_<<effect, told>>
=============================================================================
