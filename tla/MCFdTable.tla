----------------------------- MODULE MCFdTable -----------------------------
(* Small instances of FdTable for TLC. *)
EXTENDS FdTable, TLC

Device == [kind |-> "chr", mode |-> "O_RDWR"]
Directory == [kind |-> "dir", mode |-> "O_RDONLY"]
Socket == [kind |-> "stream", mode |-> "O_RDWR"]
Log == [kind |-> "reg", mode |-> "O_WRONLY"]
Strange == [kind |-> "other", mode |-> "O_RDWR"]

LogAndStrange == {Log, Strange}
OnlyLog == {Log}

NoFlags == {{}}
Rights(base, inheriting) == [base |-> base, inheriting |-> inheriting]

\* The rights that programs ask for.
Reading == {Rights({"FD_READ", "FILE_STAT_FGET"}, {})}
Opening ==
  {Rights({"FD_READ", "FD_WRITE"}, {}),
   Rights({"FILE_OPEN"}, {"FILE_OPEN"}),
   Rights({"FILE_OPEN"}, {"FD_READ", "FILE_OPEN"})}
OpenFlags == {{}, {"CREAT"}, {"CREAT", "TRUNC"}}
DescriptorFlags == {{}, {"APPEND", "SYNC"}, {"DSYNC"}}

-----------------------------------------------------------------------------
Program(file, calls, size, nobjects, nofile, mallocMayFail) ==
  [files |-> <<file>>, args |-> <<0>>, calls |-> calls, requests |-> Reading, oflags |-> NoFlags,
   fdflags |-> NoFlags, kinds |-> {"reg", "other"}, size |-> size, nobjects |-> nobjects,
   nofile |-> nofile, mallocMayFail |-> mallocMayFail,
   reallocMoves |-> "fd_dup" \notin calls]

\* Programs that use descriptors in all ways, that run out of memory while
\* they obtain descriptors, that pass rights from descriptor to descriptor,
\* that receive descriptors, that got a number twice, and that drop them.
\* The table of those that call fd_dup() does not move.
UsingProgram ==
  Program(Device, {"use", "fd_create1", "fd_close", "fd_dup", "fd_replace", "self_replace",
                   "poll", "sock_send", "file_link", "file_rename"}, 4, 2, 3, FALSE)
FailingProgram ==
  Program(Directory, {"fd_close", "fd_create1", "fd_create2", "file_open"}, 4, 3, 4, TRUE)
OpeningProgram ==
  [Program(Directory, {"file_open", "fd_stat_put", "fd_dup", "fd_replace", "fd_close"},
           4, 2, 3, FALSE)
     EXCEPT !.requests = Opening, !.oflags = OpenFlags, !.fdflags = DescriptorFlags,
            !.kinds = {"reg", "dir"}]
ReceivingProgram == Program(Socket, {"sock_recv", "fd_close"}, 8, 3, 3, FALSE)
SharingProgram ==
  [Program(Device, {"use", "fd_close", "fd_create1"}, 4, 3, 2, FALSE)
     EXCEPT !.args = <<0, 0>>]
TablePrograms ==
  {UsingProgram, FailingProgram, OpeningProgram, ReceivingProgram, SharingProgram}

\* A program that receives descriptors when memory runs out.
PoorPrograms == {Program(Socket, {"sock_recv", "fd_create1"}, 8, 3, 3, TRUE)}

\* A program that copies descriptors while its table moves.
MovingPrograms ==
  {[Program(Directory, {"use", "fd_close", "fd_dup"}, 4, 2, 3, FALSE)
      EXCEPT !.reallocMoves = TRUE]}

DroppingPrograms ==
  {Program(Directory, {"use", "fd_close", "fd_replace", "fd_create1"}, 4, 2, 3, TRUE)}
    \cup MovingPrograms

Symmetry == Permutations(Threads) \cup Permutations(Objects)
=============================================================================
