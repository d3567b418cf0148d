------------------------------ MODULE FiberPool ------------------------------
(***************************************************************************)
(* OverSIP::FiberPool (lib/oversip/fiber_pool.rb): the fixed number of     *)
(* fibers in which DNS queries run, and the queue of blocks that wait for  *)
(* one.  A block is suspended and resumed by the DNS resolver any number   *)
(* of times before it ends, or raises, which kills its fiber.              *)
(*                                                                         *)
(* A dead fiber stays among the busy ones until the next spawn replaces it *)
(* by a new one; here the new one takes over its name.  Which of the idle  *)
(* fibers is used is left open.                                            *)
(***************************************************************************)
EXTENDS Integers, Sequences

CONSTANTS
    Fibers,     \* the fibers of the pool
    Blocks,     \* the blocks ever spawned
    Idle        \* no block

ASSUME FiberPoolConstants == Idle \notin Blocks

VARIABLES
    fiber,      \* the block each fiber runs, or ran when it died, or Idle
    dead,       \* fibers killed by an exception, still in @busy_fibers
    queue,      \* @queue
    spawned,    \* history: blocks given to the pool
    ended       \* history: blocks that have ended or raised

poolVars == <<fiber, dead, queue, spawned, ended>>

PoolInit ==
    /\ fiber = [f \in Fibers |-> Idle]
    /\ dead = {}
    /\ queue = <<>>
    /\ spawned = {} /\ ended = {}

\* Faulty variant: dead fibers are not replaced.
SpawnNoResurrection(b) ==
    /\ b \in Blocks \ spawned
    /\ spawned' = spawned \cup {b}
    /\ IF \E f \in Fibers : fiber[f] = Idle
       THEN /\ \E f \in Fibers : fiber[f] = Idle /\ fiber' = [fiber EXCEPT ![f] = b]
            /\ UNCHANGED queue
       ELSE queue' = Append(queue, b) /\ UNCHANGED fiber
    /\ UNCHANGED <<dead, ended>>

\* spawn: the dead are replaced, then a free fiber runs the block, or it waits.
Spawn(b) ==
    /\ b \in Blocks \ spawned
    /\ spawned' = spawned \cup {b}
    /\ LET pool == [f \in Fibers |-> IF f \in dead THEN Idle ELSE fiber[f]]
       IN IF \E f \in Fibers : pool[f] = Idle
          THEN /\ \E f \in Fibers : pool[f] = Idle /\ fiber' = [pool EXCEPT ![f] = b]
               /\ UNCHANGED queue
          ELSE queue' = Append(queue, b) /\ fiber' = pool
    /\ dead' = {}
    /\ UNCHANGED ended

\* Faulty variant: the fiber rests although blocks wait.
FinishAndRest(f) ==
    /\ f \in Fibers \ dead /\ fiber[f] # Idle
    /\ ended' = ended \cup {fiber[f]}
    /\ fiber' = [fiber EXCEPT ![f] = Idle]
    /\ UNCHANGED <<dead, queue, spawned>>

\* Faulty variant: the next block is looked at and left in the queue.
FinishKeep(f) ==
    /\ f \in Fibers \ dead /\ fiber[f] # Idle
    /\ ended' = ended \cup {fiber[f]}
    /\ fiber' = [fiber EXCEPT ![f] = IF queue = <<>> THEN Idle ELSE Head(queue)]
    /\ UNCHANGED <<dead, queue, spawned>>

\* A block ends: its fiber takes the next one or returns to the pool.
Finish(f) ==
    /\ f \in Fibers \ dead /\ fiber[f] # Idle
    /\ ended' = ended \cup {fiber[f]}
    /\ IF queue = <<>>
       THEN fiber' = [fiber EXCEPT ![f] = Idle] /\ UNCHANGED queue
       ELSE fiber' = [fiber EXCEPT ![f] = Head(queue)] /\ queue' = Tail(queue)
    /\ UNCHANGED <<dead, spawned>>

\* A block raises, and its fiber dies.
Raise(f) ==
    /\ f \in Fibers \ dead /\ fiber[f] # Idle
    /\ ended' = ended \cup {fiber[f]}
    /\ dead' = dead \cup {f}
    /\ UNCHANGED <<fiber, queue, spawned>>

PoolNext ==
    \/ \E b \in Blocks : Spawn(b)
    \/ \E f \in Fibers : Finish(f) \/ Raise(f)

\* The resolver answers or gives up, so that every block comes to its end.
PoolFairness == \A f \in Fibers : WF_poolVars(Finish(f) \/ Raise(f))

PoolSpec == PoolInit /\ [][PoolNext]_poolVars /\ PoolFairness

-----------------------------------------------------------------------------
(* Properties.                                                             *)

PoolTypeOK ==
    /\ fiber \in [Fibers -> Blocks \cup {Idle}]
    /\ dead \subseteq Fibers
    /\ queue \in Seq(Blocks)
    /\ spawned \subseteq Blocks /\ ended \subseteq Blocks

Queued == {queue[i] : i \in 1..Len(queue)}
Running == {fiber[f] : f \in Fibers \ dead} \ {Idle}

\* No block is lost when a fiber is reused, dies or is replaced: it waits, runs
\* or has ended, and only one of these.
NothingLost ==
    /\ spawned = Queued \cup Running \cup ended
    /\ Queued \cap Running = {} /\ Queued \cap ended = {} /\ Running \cap ended = {}

\* No block is run twice: it is in one fiber, and once in the queue.
OnceOnly ==
    /\ \A f, g \in Fibers \ dead : (fiber[f] = fiber[g] /\ fiber[f] # Idle) => f = g
    /\ \A i, j \in 1..Len(queue) : queue[i] = queue[j] => i = j

\* A block is left to wait only when every fiber of the pool is alive and busy,
\* also after fibers have died.
WaitsOnlyIfFull ==
    [][Len(queue') > Len(queue) => (dead' = {} /\ \A f \in Fibers : fiber'[f] # Idle)]_poolVars

\* "Once a fiber is done with its block, it attempts to fetch another one from
\* the queue": every block that is spawned is run to its end, unless an
\* exception kills a fiber, whose place stays empty until the next spawn and
\* then does not go to the blocks that wait.
EveryBlockRuns ==
    [](dead = {}) => \A b \in Blocks : b \in spawned ~> b \in ended
=============================================================================
