------------------------------ MODULE LaneAbs ------------------------------
(***************************************************************************)
(* What one probe interface promises, with no tasks, channels or buffers:  *)
(* requests are served one at a time and in the order sent; each one meant *)
(* for the SWD engine is executed exactly once while it is the request in  *)
(* service, and only then answered or dropped; a request is answered at    *)
(* most once; and once the interface was seen to go down, no request is    *)
(* executed before the target was released.                                *)
(***************************************************************************)
EXTENDS Naturals

CONSTANT Lanes

VARIABLES
  open,       \* the lanes with a request in service
  current,    \* current[l]: its number, or the last one's
  onEngine,   \* the lanes whose request is for the SWD engine
  ran,        \* ran[l]: the last request executed
  replied,    \* replied[l]: the last request answered
  owed        \* the lanes whose target must be released before anything runs

vars == <<open, current, onEngine, ran, replied, owed>>

Init ==
  /\ open = {} /\ onEngine = {} /\ owed = {}
  /\ current = [l \in Lanes |-> 0]
  /\ ran = [l \in Lanes |-> 0]
  /\ replied = [l \in Lanes |-> 0]

\* A later request of the host comes into service.
Accept(l) ==
  /\ l \notin open
  /\ open' = open \cup {l}
  /\ current'[l] > current[l]
  /\ current' = [current EXCEPT ![l] = current'[l]]
  /\ onEngine' \in {onEngine \cup {l}, onEngine \ {l}}
  /\ UNCHANGED <<ran, replied, owed>>

Execute(l) ==
  /\ l \in open \cap onEngine /\ l \notin owed
  /\ ran[l] < current[l]
  /\ ran' = [ran EXCEPT ![l] = current[l]]
  /\ UNCHANGED <<open, current, onEngine, replied, owed>>

Finished(l) == l \in open /\ (l \in onEngine => ran[l] = current[l])

Answer(l) ==
  /\ Finished(l)
  /\ open' = open \ {l}
  /\ replied' = [replied EXCEPT ![l] = current[l]]
  /\ UNCHANGED <<current, onEngine, ran, owed>>

\* No response is due, or the interface went down before it was sent.
Drop(l) ==
  /\ Finished(l)
  /\ open' = open \ {l}
  /\ owed' \in {owed, owed \cup {l}}
  /\ UNCHANGED <<current, onEngine, ran, replied>>

\* The interface is seen to be down between two requests.
GoDown(l) ==
  /\ l \notin open
  /\ owed' = owed \cup {l}
  /\ UNCHANGED <<open, current, onEngine, ran, replied>>

Release(l) ==
  /\ owed' = owed \ {l}
  /\ UNCHANGED <<open, current, onEngine, ran, replied>>

\* The chip resets: nothing is in service and every target is released.
Reset ==
  /\ open' = {} /\ owed' = {}
  /\ UNCHANGED <<current, onEngine, ran, replied>>

Next ==
  \/ Reset
  \/ \E l \in Lanes : \/ Accept(l) \/ Execute(l) \/ Answer(l) \/ Drop(l)
                      \/ GoDown(l) \/ Release(l)

Spec == Init /\ [][Next]_vars
=============================================================================
