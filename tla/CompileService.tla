--------------------------- MODULE CompileService ---------------------------
(***************************************************************************)
(* What RE2Set.compileAsync promises its callers, with no cache, registry, *)
(* pool or environment in sight: each call is answered once.  It resolves  *)
(* with a set compiled from the patterns it asked for, by itself or by     *)
(* another call, and it is refused only if RE2 refuses the patterns.  No   *)
(* set is compiled for a call that has its answer.                         *)
(***************************************************************************)
CONSTANTS
    Calls,
    Patterns,   \* pattern sets
    Refused,    \* those RE2 refuses
    MayFail,    \* whether anything but a teardown may fail
    MayClose,   \* whether environments are torn down
    None

VARIABLES
    patterns,   \* what each call asks for
    compiled,   \* calls that compiled a set
    answer,     \* "none", "set", "refused", "failed", or "dropped" in a teardown
    set         \* the set a call is given, named by the call that compiled it

serviceVars == <<patterns, compiled, answer, set>>

Init ==
    /\ patterns = [c \in Calls |-> None]
    /\ compiled = {}
    /\ answer = [c \in Calls |-> "none"]
    /\ set = [c \in Calls |-> None]

Give(c, k, d) ==
    /\ d \in compiled /\ patterns[d] = k
    /\ answer' = [answer EXCEPT ![c] = "set"]
    /\ set' = [set EXCEPT ![c] = d]

Deny(c, k) ==
    /\ \/ k \in Refused /\ answer' = [answer EXCEPT ![c] = "refused"]
       \/ MayFail /\ answer' = [answer EXCEPT ![c] = "failed"]
       \/ MayClose /\ answer' = [answer EXCEPT ![c] = "dropped"]
    /\ UNCHANGED set

Answer(c, k) ==
    /\ answer[c] = "none"
    /\ (\E d \in Calls : Give(c, k, d)) \/ Deny(c, k)
    /\ UNCHANGED compiled

\* A call whose set is at hand is answered at once.
Ask(c, k) ==
    /\ patterns[c] = None
    /\ patterns' = [patterns EXCEPT ![c] = k]
    /\ Answer(c, k) \/ UNCHANGED <<compiled, answer, set>>

Compile(c) ==
    /\ patterns[c] \in Patterns \ Refused
    /\ answer[c] = "none" /\ c \notin compiled
    /\ compiled' = compiled \cup {c}
    /\ UNCHANGED <<patterns, answer, set>>

AnswerLater(c) ==
    /\ patterns[c] \in Patterns
    /\ Answer(c, patterns[c])
    /\ UNCHANGED patterns

Next == \E c \in Calls :
    (\E k \in Patterns : Ask(c, k)) \/ Compile(c) \/ AnswerLater(c)

Spec == Init /\ [][Next]_serviceVars
=============================================================================
