------------------------------ MODULE IoTester ------------------------------
(***************************************************************************)
(* The I/O tester (src/io/iotester.c): FETCH commands are answered in the  *)
(* CPU's thread, SEND commands wait in a queue for the tester's thread,    *)
(* which works on memory and leaves its result where the CPU fetches it.   *)
(***************************************************************************)
EXTENDS Integers, Sequences

CONSTANTS
  TestCap,    \* 1024 commands
  TestWords,  \* values of a word: 0..TestWords - 1
  MaxTests    \* bound: commands

ASSUME TesterAssumption == {TestCap, TestWords} \subseteq Nat \ {0} /\ MaxTests \in Nat

VARIABLES
  testEvq,        \* [type, cmd, r]
  testSpec,    \* a word, or "dead"
  am, ab,     \* addresses in memory and in the buffer
  testRes,        \* of the last access to memory, which an empty transfer leaves
  reset_int,
  store, copy,\* memory and the buffer, 0 to TestWords - 1
  fetching,   \* the CPU has loaded the specification and is about to store "dead"
  fetched,    \* what it got last
  testInt,     \* the channel's interrupt is requested
  counted,    \* history: words transferred by the last command, or -1 when it was none
  tests, testerUp   \* the thread runs

testerVars == <<testEvq, testSpec, am, ab, testRes, reset_int, store, copy, fetching, fetched, testInt, counted, tests, testerUp>>
TestAddrs == 0..TestWords - 1

TestEv(type, c, r) == [type |-> type, cmd |-> c, r |-> r]
TestQueued(ev) == IF Len(testEvq) < TestCap THEN Append(testEvq, ev) ELSE testEvq

TesterInit ==
  /\ testEvq = <<>> /\ testSpec = 0 /\ am = 0 /\ ab = 0 /\ testRes = 0 /\ reset_int = FALSE
  /\ store = [a \in TestAddrs |-> a] /\ copy \in {[a \in TestAddrs |-> v] : v \in TestAddrs}
  /\ fetching = FALSE /\ fetched = 0 /\ testInt = FALSE /\ counted = -1 /\ tests = 0 /\ testerUp = TRUE

Sends == {"WNB", "WAM", "WAB", "WM", "RM", "WMM", "RMM", "IRQ", "PA", "ERI", "unknown"}

\* it_cmd(), SEND
SendCommand(c, r) ==
  /\ testerUp /\ ~fetching /\ tests < MaxTests /\ tests' = tests + 1 /\ testEvq' = TestQueued(TestEv("cmd", c, r))
  /\ UNCHANGED <<testSpec, am, ab, testRes, reset_int, store, copy, fetching, fetched, testInt, counted, testerUp>>

\* it_cmd(), ISP: two accesses, between which the tester's thread may store another
FetchSpec ==
  /\ testerUp /\ ~fetching /\ testInt /\ testInt' = FALSE
  /\ fetched' = testSpec /\ fetching' = TRUE
  /\ UNCHANGED <<testEvq, testSpec, am, ab, testRes, reset_int, store, copy, counted, tests, testerUp>>
Deaden ==
  /\ fetching /\ fetching' = FALSE /\ testSpec' = "dead"
  /\ UNCHANGED <<testEvq, am, ab, testRes, reset_int, store, copy, fetched, testInt, counted, tests, testerUp>>

\* it_reset(), it_shutdown(): behind what is queued; the thread is waited for
TesterReset ==
  /\ testerUp /\ ~fetching /\ tests < MaxTests /\ tests' = tests + 1 /\ testEvq' = TestQueued(TestEv("reset", "none", 0))
  /\ UNCHANGED <<testSpec, am, ab, testRes, reset_int, store, copy, fetching, fetched, testInt, counted, testerUp>>
TesterShutdown ==
  /\ testerUp /\ ~fetching /\ (\A i \in DOMAIN testEvq : testEvq[i].type # "quit") /\ Len(testEvq) < TestCap
  /\ testEvq' = Append(testEvq, TestEv("quit", "none", 0))
  /\ UNCHANGED <<testSpec, am, ab, testRes, reset_int, store, copy, fetching, fetched, testInt, counted, tests, testerUp>>

-----------------------------------------------------------------------------
(* The tester's thread, it_cmdproc(), on the event at the head.            *)
SpecTold(spec) == testSpec' = spec /\ testInt' = TRUE
Around(base, i) == (base + i) % TestWords

\* Mutant of Copied: one word more than was asked for.
CopiedPast(from, to, f, t, n) ==
  [a \in TestAddrs |-> IF \E i \in 0..n : Around(t, i) = a
                   THEN from[Around(f, CHOOSE i \in 0..n : Around(t, i) = a)]
                   ELSE to[a]]

\* words that get through before memory refuses one, if it does; the commands for many
\* words at once stop at the same place
Copied(from, to, f, t, n) ==
  [a \in TestAddrs |-> IF \E i \in 0..n - 1 : Around(t, i) = a
                   THEN from[Around(f, CHOOSE i \in 0..n - 1 : Around(t, i) = a)]
                   ELSE to[a]]

TestResult(ev, done) ==
  IF ev.r = 0 /\ ev.cmd \in {"WM", "RM"} THEN testRes ELSE IF done = ev.r THEN 1 ELSE 0

TestTransfer(ev) ==
  \E done \in 0..ev.r :
    /\ ab + ev.r <= TestWords \* beyond the buffer nothing is defined
    /\ testRes' = TestResult(ev, done) /\ SpecTold(testRes') /\ counted' = done
    /\ IF ev.cmd \in {"WM", "WMM"} THEN store' = Copied(copy, store, ab, am, done) /\ UNCHANGED copy
       ELSE copy' = Copied(store, copy, am, ab, done) /\ UNCHANGED store
    /\ UNCHANGED <<am, ab, reset_int>>

TesterWork ==
  /\ testerUp /\ testEvq # <<>> /\ testEvq' = Tail(testEvq)
  /\ LET ev == Head(testEvq)
     IN \/ /\ ev.type = "quit" /\ testerUp' = FALSE
           /\ UNCHANGED <<testSpec, am, ab, testRes, reset_int, store, copy, testInt, counted>>
        \/ /\ ev.type = "reset" /\ reset_int' = FALSE /\ counted' = -1
           /\ IF reset_int THEN SpecTold("ffff") ELSE UNCHANGED <<testSpec, testInt>>
           /\ UNCHANGED <<am, ab, testRes, store, copy, testerUp>>
        \/ /\ ev.cmd \in {"WNB", "WAM", "WAB", "unknown"} /\ SpecTold(0) /\ counted' = -1
           /\ am' = IF ev.cmd = "WAM" THEN ev.r ELSE am
           /\ ab' = IF ev.cmd = "WAB" THEN ev.r ELSE ab
           /\ UNCHANGED <<testRes, reset_int, store, copy, testerUp>>
        \/ ev.cmd \in {"WM", "RM", "WMM", "RMM"} /\ TestTransfer(ev) /\ UNCHANGED testerUp
        \/ /\ ev.cmd = "IRQ" /\ SpecTold(ev.r) /\ counted' = -1
           /\ UNCHANGED <<am, ab, testRes, reset_int, store, copy, testerUp>>
        \/ /\ ev.cmd \in {"PA", "ERI"} /\ reset_int' = (reset_int \/ ev.cmd = "ERI") /\ counted' = -1
           /\ UNCHANGED <<testSpec, am, ab, testRes, store, copy, testInt, testerUp>>
  /\ UNCHANGED <<fetching, fetched, tests>>

TesterNext ==
  \/ \E c \in Sends, r \in TestAddrs : SendCommand(c, r)
  \/ FetchSpec \/ Deaden \/ TesterReset \/ TesterShutdown \/ TesterWork
TesterSpec == TesterInit /\ [][TesterNext]_testerVars

-----------------------------------------------------------------------------
\* A buffer that has been written to memory and read back is what it was: a transfer
\* moves the words it says, from the addresses set before it, and no other
\* (it_cmdproc(), CMD_WAM to CMD_RMM).
TransfersKeep ==
  [][\A a \in TestAddrs : (store'[a] # store[a] => \E i \in 0..counted' - 1 : a = Around(am, i) /\ \E b \in TestAddrs : store'[a] = copy[b])
                   /\ (copy'[a] # copy[a] => \E i \in 0..counted' - 1 : a = Around(ab, i) /\ \E b \in TestAddrs : copy'[a] = store[b])]_testerVars

\* A specification is there for an interrupt that was requested; it may be lost.
SpecThere == testInt /\ ~fetching => testSpec # "dead"

\* "intspec = num_writes" (iotester.c:91): after a transfer the specification is how many
\* words were moved; it is only whether all were.
CountReported == counted > 1 /\ testInt => testSpec \in {counted, "dead"}
=============================================================================
