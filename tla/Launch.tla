------------------------------- MODULE Launch -------------------------------
(***************************************************************************)
(* From the command line to a running program: main() of cloudabi-run,     *)
(* which turns a YAML document into argument data with file descriptors    *)
(* (YAMLFileDescriptorFactory), and starts the program in one of two ways. *)
(* With -e it fills a descriptor table and calls emulate() (module Loader) *)
(* in the same process; otherwise program_exec() passes the argument data  *)
(* on the command line to cloudabi-reexec, whose program_main() executes   *)
(* the program with the native program_exec().  cloudabi-emulate does what *)
(* cloudabi-run -e does, with the arguments of cloudabi-reexec.            *)
(*                                                                         *)
(* A document is the sequence of its leaves, in the order in which the     *)
(* builder visits and the serialisation stores them: data, given by its    *)
(* bytes, or one of the tagged nodes.  A byte is zero or not.              *)
(***************************************************************************)
EXTENDS Loader

CONSTANTS
  HostFds,     \* descriptor numbers of the host process
  None         \* no open file

VARIABLES
  emulated,    \* was -e given?
  document,    \* the YAML document
  stage,       \* where the launch is
  node,        \* the leaf, or the descriptor, that is processed next
  host,        \* the host's descriptor table: number -> open file
  leaves,      \* argument data: the bytes or the descriptor of each leaf
  argv,        \* the command line of cloudabi-reexec
  registered   \* the descriptor table of the program

launchOnly == <<emulated, document, stage, node, host, leaves, argv, registered>>
launchVars == <<launchOnly, loaderVars>>

STDOUT_FILENO == 1
STDERR_FILENO == 2

\* What a leaf of the document asks for: the n-th leaf's own file, if it
\* names no file that is open already.
FileOf(n) ==
  LET leaf == document[n]
  IN  CASE leaf.kind = "fd" -> leaf.value
        [] leaf.kind = "executable" -> "executable"
        [] leaf.kind \in {"file", "switchboard"} -> n

\* The lowest number that is not in use.
Lowest(h) == Min({f \in HostFds : h[f] = None})

\* d is the document on stdin.
LaunchInit(d) ==
  /\ emulated \in BOOLEAN
  /\ document = d
  /\ stage = "open"
  /\ node = 1
  /\ host = [f \in HostFds |-> CASE f = 0 -> "stdin"
                                 [] f = STDOUT_FILENO -> "stdout"
                                 [] f = STDERR_FILENO -> "stderr"
                                 [] OTHER -> None]
  /\ leaves = <<>> /\ argv = <<>> /\ registered = <<>>

\* main() prints a message and returns 127.
Exit127 ==
  /\ stage' = "exited"
  /\ UNCHANGED <<emulated, document, node, host, leaves, argv, registered>>

\* The command line is wrong, or the executable cannot be opened, or it is.
OpenExecutable ==
  /\ stage = "open"
  /\ UNCHANGED loaderVars
  /\ \/ Exit127
     \/ /\ host' = [host EXCEPT ![Lowest(host)] = "executable"]
        /\ stage' = "build"
        /\ UNCHANGED <<emulated, document, node, leaves, argv, registered>>

\* The number of execfd.
execfd == CHOOSE f \in HostFds : host[f] = "executable"

\* The builder visits a leaf: argument data for it is added, ...
AddLeaf(leaf, h) ==
  /\ leaves' = Append(leaves, leaf)
  /\ host' = h
  /\ node' = node + 1
  /\ UNCHANGED <<emulated, document, stage, argv, registered>>

\* GetScalar()
GetScalar ==
  LET leaf == document[node]
  IN  /\ \/ leaf.kind = "data" /\ AddLeaf([bytes |-> leaf.bytes], host)
         \/ /\ leaf.kind = "fd"
            /\ \/ leaf.value = "stdout" /\ AddLeaf([fd |-> STDOUT_FILENO], host)
               \/ leaf.value = "stderr" /\ AddLeaf([fd |-> STDERR_FILENO], host)
               \/ leaf.value \notin {"stdout", "stderr"} /\ Exit127
         \/ leaf.kind = "executable" /\ AddLeaf([fd |-> execfd], host)

\* Mutant: the descriptor is not kept in fds_ and closes with its last owner.
KeptMutant(fd, file) == [host EXCEPT ![fd] = None]

\* The host's descriptors once file is open as fd and fds_ owns it.
Kept(fd, file) == [host EXCEPT ![fd] = file]

\* GetMap() for the tag !file: the only attribute is the path, a string.
GetFile ==
  LET leaf == document[node]
      proper == leaf.keys = {"path"} /\ leaf.strings
      fd == Lowest(host)
  IN  /\ leaf.kind = "file"
      /\ \/ ~proper /\ Exit127
         \/ proper /\ Exit127  \* open() fails
         \/ proper /\ AddLeaf([fd |-> fd], Kept(fd, node))

\* GetMap() for the tag !flower_switchboard_handle: the socket of the channel
\* is open while the switchboard sends the descriptor, and then closed.
GetSwitchboard ==
  LET leaf == document[node]
      proper == /\ leaf.keys \subseteq {"switchboard_path", "constraints"}
                /\ "switchboard_path" \in leaf.keys /\ leaf.strings
      s == Lowest(host)
      received == Lowest([host EXCEPT ![s] = "socket"])
  IN  /\ leaf.kind = "switchboard"
      /\ \/ ~proper /\ Exit127
         \/ proper /\ Exit127  \* the socket, the connection or the call fails
         \/ proper /\ AddLeaf([fd |-> received], Kept(received, node))

BuildLeaf ==
  /\ stage = "build" /\ node <= Len(document)
  /\ GetScalar \/ GetFile \/ GetSwitchboard
  /\ UNCHANGED loaderVars

-----------------------------------------------------------------------------
IsFdLeaf(leaf) == "fd" \in DOMAIN leaf

\* argdata_serialize() (external): the descriptors of the leaves, in order.
FdsOf(ad) ==
  LET found == SelectSeq(ad, IsFdLeaf)
  IN  [n \in 1..Len(found) |-> found[n].fd]

\* ... and the bytes: a leaf is its length (never zero), a tag and its
\* bytes; a descriptor is stored as a number, with null bytes in it.
Serialized(ad) ==
  FlattenSeq([n \in 1..Len(ad) |->
    IF IsFdLeaf(ad[n]) THEN <<3, 0, 0, ad[n].fd>> ELSE <<Len(ad[n].bytes) + 1>> \o ad[n].bytes])

\* With -e: the document is complete, and the descriptors are registered.
Serialize ==
  /\ stage = "build" /\ node > Len(document) /\ emulated
  /\ stage' = "register"
  /\ node' = 1
  /\ UNCHANGED <<emulated, document, host, leaves, argv, registered, loaderVars>>

\* The number under which the i-th descriptor is registered.
Slot(i, fd) == i - 1

RegisterFd ==
  LET fds == FdsOf(leaves)
  IN  /\ stage = "register" /\ node <= Len(fds)
      /\ UNCHANGED loaderVars
      /\ \/ Exit127  \* fd_table_insert_existing() fails
         \/ /\ registered' = Append(registered, [slot |-> Slot(node, fds[node]),
                                                 file |-> host[fds[node]]])
            /\ node' = node + 1
            /\ UNCHANGED <<emulated, document, stage, host, leaves, argv>>

\* All descriptors are registered: emulate() is called, ...
Emulate ==
  /\ stage = "register" /\ node > Len(FdsOf(leaves))
  /\ CallEmulate
  /\ stage' = "emulate"
  /\ UNCHANGED <<emulated, document, node, host, leaves, argv, registered>>

\* ... and starts the program, ...
StartProgram ==
  /\ stage = "emulate"
  /\ Start
  /\ stage' = "running"
  /\ UNCHANGED <<emulated, document, node, host, leaves, argv, registered>>

\* ... or returns because it failed, or dies.
EmulateEnds ==
  /\ stage = "emulate"
  /\ UNCHANGED loaderVars
  /\ \/ step = "failed" /\ Exit127
     \/ /\ step = "killed"
        /\ stage' = "killed"
        /\ UNCHANGED <<emulated, document, node, host, leaves, argv, registered>>

-----------------------------------------------------------------------------
\* Mutant: the null byte between two arguments is not skipped.
SplitMutant(data) ==
  LET argc == Cardinality({i \in DOMAIN data : data[i] = 0})
      p[i \in 1..argc] == IF i = 1 THEN 1 ELSE p[i - 1] + strlen(data, p[i - 1])
  IN  [i \in 1..argc |-> SubSeq(data, p[i], p[i] + strlen(data, p[i]) - 1)]

\* The split of null-terminated data into the arguments of execve().
Split(data) ==
  LET argc == Cardinality({i \in DOMAIN data : data[i] = 0})
      p[i \in 1..argc] == IF i = 1 THEN 1 ELSE p[i - 1] + strlen(data, p[i - 1]) + 1
  IN  [i \in 1..argc |-> SubSeq(data, p[i], p[i] + strlen(data, p[i]) - 1)]

\* program_exec(): the sequence of the executable's descriptor and the
\* argument data goes onto the command line of cloudabi-reexec.
ProgramExecData == Serialized(<<[fd |-> execfd]>> \o leaves)
program_exec ==
  /\ stage = "build" /\ node > Len(document) /\ ~emulated
  /\ UNCHANGED loaderVars
  /\ \/ Exit127  \* malloc() or execve() fails
     \/ /\ argv' = Split(ProgramExecData \o <<0>>)
        /\ stage' = "reexec"
        /\ UNCHANGED <<emulated, document, node, host, leaves, registered>>

\* program_main() of cloudabi-reexec: what it gets are the arguments of its
\* command line, concatenated again (external).  The native program_exec()
\* (external) passes the descriptors of the argument data, and no others.
Joined(args) ==
  LET all == FlattenSeq([i \in 1..Len(args) |-> args[i] \o <<0>>])
  IN  SubSeq(all, 1, Len(all) - 1)
program_main ==
  /\ stage = "reexec"
  /\ UNCHANGED loaderVars
  /\ \/ Exit127  \* the sequence cannot be read, or the native program_exec() fails
     \/ /\ Joined(argv) = ProgramExecData
        /\ registered' = [n \in 1..Len(FdsOf(leaves)) |->
                            [slot |-> n - 1, file |-> host[FdsOf(leaves)[n]]]]
        /\ stage' = "running"
        /\ UNCHANGED <<emulated, document, node, host, leaves, argv>>

\* The steps that wait for the user or for other processes: stdin, files that
\* are opened, the switchboard.
Prepare == OpenExecutable \/ BuildLeaf
\* Calls of emulate() to the host fail.
HostFails == stage = "emulate" /\ HostFailsLoader /\ UNCHANGED launchOnly
\* The steps of the launch itself, up to the start of the program.
Proceed ==
  \/ Serialize \/ RegisterFd \/ Emulate \/ EmulateEnds
  \/ program_exec \/ program_main
  \/ stage = "emulate" /\ LoaderNext /\ UNCHANGED launchOnly

-----------------------------------------------------------------------------
\* The program runs with the exact set of descriptors of the document: the
\* n-th descriptor node is descriptor n - 1 and names the file that the node
\* asked for, and there are no others.  Until then fds_ owns the descriptors,
\* so that no later open() or socket() reuses a number.
ProgramGetsExactSet ==
  stage = "running" =>
    LET nodes == SelectSeq([n \in DOMAIN document |-> n], LAMBDA n : document[n].kind # "data")
    IN  registered = [k \in 1..Len(nodes) |-> [slot |-> k - 1, file |-> FileOf(nodes[k])]]

\* The comment in program_exec(): all arguments concatenated, including the
\* null bytes, are the original data; and no argument has a null byte, at
\* which execve() would cut it off.
ArgumentsArriveIntact ==
  stage = "reexec" =>
    /\ Joined(argv) = ProgramExecData
    /\ \A i \in DOMAIN argv : \A j \in DOMAIN argv[i] : argv[i][j] # 0

\* Once the document is complete the launch ends, however short or damaged
\* the executable is: the program runs, or cloudabi-run reports a failure or
\* dies.
LaunchEnds ==
  ( \/ stage = "build" /\ node > Len(document)
    \/ stage \in {"register", "emulate", "reexec"} )
  ~> stage \in {"running", "exited", "killed"}
=============================================================================
