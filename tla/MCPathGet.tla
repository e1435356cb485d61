----------------------------- MODULE MCPathGet -----------------------------
(***************************************************************************)
(* Instances of PathGet, and a reference for what a look-up returns.       *)
(***************************************************************************)
EXTENDS PathGet, SequencesExt

P(names) == [abs |-> FALSE, names |-> names, slash |-> FALSE]
Slash(p) == [p EXCEPT !.slash = TRUE]
Absolute(p) == [p EXCEPT !.abs = TRUE]

MCNames == {"a", "b"}
MCDirs == {"base", "sub", "deep", "bottom", "outside"}

\* Base has an entry of every type, directories and links to them, links to
\* links, links that loop and links that lead outside.
Tree(b, c, d) ==
  [base |-> [a |-> Directory("sub"), b |-> b],
   sub |-> [a |-> c, b |-> d],
   deep |-> [a |-> Directory("bottom"), b |-> Link(P(<<"..", "b">>))],
   bottom |-> [a |-> Absent, b |-> Regular],
   outside |-> [a |-> Directory("base"), b |-> Regular]]

MCTrees ==
  {Tree(b, c, d) :
     b \in {Link(P(<<"a">>)), Link(P(<<"a", "b">>)), Link(Absolute(P(<<"b">>))), Link(P(<<"b">>)),
            Link(P(<<"b", "a">>)), Directory("sub")},
     c \in {Directory("deep"), Link(P(<<"..", "b">>))},
     d \in {Link(P(<<".">>)), Link(P(<<"..">>)), Link(Slash(P(<<"..", "..">>))), Absent, Regular}}

\* Directories become links, also absolute ones and ones upwards, and back.
MCChanging ==
  {Tree(b, Directory("deep"), d) :
     b \in {Directory("sub"), Link(P(<<"a", "b">>)), Link(Absolute(P(<<"b">>)))},
     d \in {Link(P(<<".">>)), Link(Slash(P(<<"..", "..">>)))}}

MCPaths ==
  {P(<<>>), Absolute(P(<<"a">>)), P(<<"b">>), Slash(P(<<"b">>)), P(<<"b", ".", "a">>),
   P(<<"a", "..">>), P(<<"b", "b", "a">>), Slash(P(<<"a", "b">>)), P(<<"a", "a", "b">>),
   P(<<"a", "a", "a", "b">>)}
MCTargets == {P(<<"b", ".", "a">>), Slash(P(<<"a", "b">>)), P(<<"a", "a", "a", "b">>)}

-----------------------------------------------------------------------------
(***************************************************************************)
(* The reference: links are expanded by concatenation, with no stacks.     *)
(***************************************************************************)
RefResult(error, dir, name, slash, links) ==
  [error |-> error, dir |-> dir, name |-> name, slash |-> slash, links |-> links]

RECURSIVE Resolve(_, _, _, _, _)
Resolve(dirs, names, slash, look, links) ==
  LET d == Last(dirs)
      name == Head(names)
      e == tree[d][name]
      last == Len(names) = 1
      final == last /\ ~(slash /\ ~look.needs_final_component)
      Stop(error) == RefResult(error, Base, ".", FALSE, links)
  IN  CASE names = <<>> -> RefResult("0", d, ".", FALSE, links)
        [] names # <<>> /\ name = "." -> Resolve(dirs, Tail(names), slash, look, links)
        [] names # <<>> /\ name = ".." ->
             IF Len(dirs) = 1 THEN Stop("ENOTCAPABLE")
             ELSE Resolve(Front(dirs), Tail(names), slash, look, links)
        [] names # <<>> /\ name \in Names ->
             CASE e.type = "lnk" /\ (~final \/ look.follow \/ slash) ->
                    IF links + 1 = MaxExpansions
                    THEN RefResult("ELOOP", Base, ".", FALSE, links + 1)
                    ELSE IF e.target.abs THEN Stop("ENOTCAPABLE")
                    ELSE Resolve(dirs, e.target.names \o Tail(names),
                                 slash \/ (last /\ e.target.slash), look, links + 1)
               [] final /\ ~(e.type = "lnk" /\ (look.follow \/ slash)) ->
                    RefResult("0", d, name, slash, links)
               [] ~final /\ e.type = "dir" ->
                    Resolve(Append(dirs, e.dir), Tail(names), slash, look, links)
               [] ~final /\ e.type = "reg" -> Stop("ENOTDIR")
               [] ~final /\ e.type = "none" -> Stop("ENOENT")

Reference(look) ==
  IF look.path.abs THEN RefResult("ENOTCAPABLE", Base, ".", FALSE, 0)
  ELSE IF look.path.names = <<>> THEN RefResult("ENOENT", Base, ".", FALSE, 0)
  ELSE Resolve(<<Base>>, look.path.names, look.path.slash, look, 0)

\* "By using a stack, there is no need to concatenate any pathname strings
\* while expanding symlinks": as long as no other process interferes, path_get()
\* returns the directory, the name and the slash, or the error, that expansion
\* by concatenation gives.  It may run out of memory or of descriptors, but it
\* reports too many links only for a path with at least MaxPaths of them.
ResolvesLikeReference ==
  (~changed /\ ret.of # <<>>) =>
    LET ref == Reference(ret.of[1])
    IN  CASE ret.error \in {"ENOMEM", "EMFILE", "ENAMETOOLONG", "EBADF"} -> TRUE
          [] ret.error = "ELOOP" -> ref.links >= MaxPaths
          [] OTHER -> /\ ret.error = ref.error /\ ret.dir = ref.dir
                      /\ ret.name = ref.name /\ ret.slash = ref.slash
=============================================================================
