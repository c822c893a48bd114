--------------------------- MODULE SampleService ---------------------------
(***************************************************************************)
(* What the pool of DSPs promises to the rest of the program, whatever     *)
(* threads, lists and semaphores it is made of: samples are taken in turn, *)
(* each by an engine of its own, each is judged with one parameter set     *)
(* from beginning to end, and is reported once.                            *)
(***************************************************************************)
EXTENDS Naturals, Sequences, FiniteSets, Functions

CONSTANTS
  Samples,
  Limit,         \* samples that may wait at once
  Engines,       \* how many are judged at once
  ParamSets      \* parameters there may be

VARIABLES
  queue,         \* samples that wait
  work           \* those being judged, each with its parameters

serviceVars == <<queue, work>>

ServiceInit == queue = <<>> /\ work = [s \in {} |-> 0]

Accept(s) ==
  /\ s \notin Range(queue) \cup DOMAIN work
  /\ Len(queue) < Limit
  /\ queue' = Append(queue, s) /\ UNCHANGED work

Start(params) ==
  /\ queue # <<>> /\ Cardinality(DOMAIN work) < Engines
  /\ queue' = Tail(queue)
  /\ work' = [s \in DOMAIN work \cup {Head(queue)} |->
                IF s \in DOMAIN work THEN work[s] ELSE params]

Report(s) ==
  /\ s \in DOMAIN work
  /\ work' = Restrict(work, DOMAIN work \ {s}) /\ UNCHANGED queue

ServiceNext ==
  \/ \E s \in Samples : Accept(s) \/ Report(s)
  \/ \E params \in ParamSets : Start(params)

ServiceSpec == ServiceInit /\ [][ServiceNext]_serviceVars
=============================================================================
