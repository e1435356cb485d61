----------------------------- MODULE MCProcess -----------------------------
(* A small instance of Process for TLC. *)
EXTENDS Process

\* Documents: up to three leaves.  Data with and without null bytes, every
\* tag, and tagged nodes that are refused.
Leaves ==
  {[kind |-> "data", bytes |-> b] : b \in {<<0>>, <<5, 0, 0>>, <<5>>}} \cup
  {[kind |-> "fd", value |-> v] : v \in {"stdout", "stderr", "7"}} \cup
  {[kind |-> "executable"]} \cup
  {[kind |-> "file", keys |-> k, strings |-> b] : k \in {{"path"}, {"path", "mode"}}, b \in BOOLEAN} \cup
  {[kind |-> "switchboard", keys |-> k, strings |-> TRUE] :
     k \in {{"switchboard_path"}, {"switchboard_path", "constraints"}, {"constraints"}}}
Interesting == {l \in Leaves : 
  \/ l.kind \in {"data", "executable"}
  \/ l.kind = "fd" /\ l.value # "7"
  \/ l.kind = "file" /\ l.keys = {"path"} /\ l.strings
  \/ l.kind = "switchboard" /\ l.keys = {"switchboard_path"}}
MCDocuments == {<<>>} \cup [1..1 -> Leaves] \cup [1..2 -> Leaves] \cup [1..3 -> Interesting]
SomeDocument == <<[kind |-> "fd", value |-> "stdout"]>>

\* Executables: up to two segments of up to two pages of two bytes, anywhere
\* in memory, one over the other or with more bytes in the file than in memory,
\* next to a header of another type; truncated and damaged ones.
Flags(v) == IF v = 0 THEN {"R", "X"} ELSE IF v = 2 THEN {"R"} ELSE {"R", "W"}
Segments(addresses, o) ==
  {[type |-> "LOAD", vaddr |-> v, offset |-> o, filesz |-> f, memsz |-> m, flags |-> Flags(v)] :
     v \in addresses, f \in 0..3, m \in {1, 2, 4}}
Note == [type |-> "NOTE", vaddr |-> 1, offset |-> 1, filesz |-> 1, memsz |-> 1, flags |-> {"R"}]
Image(cloudabi, length, phdrs) ==
  [cloudabi |-> cloudabi, length |-> length, phoff |-> 1, phdrs |-> phdrs]
Odd == [type |-> "LOAD", vaddr |-> 1, offset |-> 0, filesz |-> 1, memsz |-> 1, flags |-> {"R"}]
Empty == [Odd EXCEPT !.vaddr = 0, !.filesz = 0, !.memsz = 0]
SomeImage == Image(TRUE, 6, <<[Odd EXCEPT !.vaddr = 0]>>)
MCImages ==
  {SomeImage} \cup
  {Image(c, n, <<[Odd EXCEPT !.vaddr = 0], Note>>) : c \in BOOLEAN, n \in {0, 1, 2, 6}} \cup
  {Image(TRUE, 6, p) : p \in {<<>>, <<Note>>, <<Odd>>, <<[Odd EXCEPT !.vaddr = 0, !.offset = 1]>>, <<Empty>>}} \cup
  {Image(TRUE, n, <<p>>) : n \in 2..4, p \in Segments({0}, 0) \cup Segments({0}, 4)} \cup
  UNION {{Image(TRUE, 6, <<p, q>>), Image(TRUE, 6, <<q, p>>)} :
           <<p, q>> \in Segments({0, 4}, 0) \X Segments({2, 8}, 2)}

\* Calls: up to three subscriptions, a timed wait, or threads.
FdSubs == {[type |-> t, fd |-> f, clock |-> "REALTIME", timeout |-> 0, abstime |-> FALSE] :
             t \in {"FD_READ"}, f \in Fds} \cup
          {[type |-> "FD_WRITE", fd |-> 1, clock |-> "REALTIME", timeout |-> 0, abstime |-> FALSE]}
ClockSubs == {[type |-> "CLOCK", fd |-> 1, clock |-> "REALTIME", timeout |-> n, abstime |-> a] :
                n \in {0, 3, 8}, a \in BOOLEAN}
OtherSub == [type |-> "PROC_TERMINATE", fd |-> 1, clock |-> "REALTIME", timeout |-> 0, abstime |-> FALSE]
AnySub == FdSubs \cup ClockSubs \cup {OtherSub}
NoCall == [subs |-> <<>>, build |-> "linux", waits |-> {}, threads |-> FALSE]
MCAnswers == {{}, {"ERR", "HUP"}, {"HUP", "NORM"}, {"NORM"}}
Builds == {"linux", "freebsd", "cloudabi", "macos"}
MCRequests == {[build |-> b, clock |-> c, timeout |-> n, abstime |-> a] :
                 b \in Builds, c \in {"MONOTONIC", "REALTIME"}, n \in {0, 3, 4, 5, 8, 11}, a \in BOOLEAN}
MCPolls ==
  {NoCall, [NoCall EXCEPT !.threads = TRUE]} \cup
  {[NoCall EXCEPT !.waits = MCRequests]} \cup
  {[NoCall EXCEPT !.subs = <<[type |-> "CLOCK", fd |-> 1, clock |-> c, timeout |-> 6, abstime |-> a]>>,
                  !.build = b] :
     c \in {"MONOTONIC", "REALTIME", "PROCESS_CPUTIME_ID", "UNKNOWN"}, a \in BOOLEAN, b \in Builds} \cup
  {[NoCall EXCEPT !.subs = s] : s \in [1..1 -> FdSubs \cup {OtherSub}] \cup [1..2 -> AnySub]} \cup
  {[NoCall EXCEPT !.subs = s] :
     s \in {s \in [1..3 -> {f \in FdSubs : f.fd = 1} \cup {c \in ClockSubs : c.timeout = 3}] :
              \E i \in 1..3 : s[i].type = "CLOCK"}}

\* Lengths of the names of system calls.
MCSyscalls == <<2, 1, 3>>

MCScenarios ==
  {[document |-> d, image |-> SomeImage, call |-> NoCall] : d \in MCDocuments} \cup
  {[document |-> SomeDocument, image |-> i, call |-> NoCall] : i \in MCImages} \cup
  {[document |-> SomeDocument, image |-> SomeImage, call |-> c] : c \in MCPolls}
=============================================================================
