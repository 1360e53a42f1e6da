------------------------------ MODULE Translate ------------------------------
(***************************************************************************)
(* How a guest's path and a host's are turned into each other (util.c).    *)
(* Names are atomic, so a host name that only begins with the text of the  *)
(* root is not told from any other.                                        *)
(***************************************************************************)
EXTENDS Paths

CONSTANTS
  Root,    \* HxRoot, which is set
  Binds    \* HxBinds

RootPlace == Names(Root)

ASSUME TranslateAssumption ==
  /\ Root \in Seq(Tokens) /\ Binds \subseteq Seq(Tokens)
  /\ Absolute(Root) /\ Root = Text(RootPlace) /\ RootPlace # <<>>
  /\ \A b \in Binds : Absolute(b) /\ b = Text(Names(b)) /\ ~IsPrefix(Root, b)
  /\ Undotted(Root) /\ \A b \in Binds : Undotted(b)

ShouldExpand(path) ==
  /\ Absolute(path)
  /\ \A b \in Binds : IsPrefix(b, path) => Len(path) > Len(b) /\ path[Len(b) + 1] # "/"

\* HxExpandedLen, with the byte that ends the text.
ExpandedLen(path) == IF ShouldExpand(path) THEN Len(Root) + Len(path) + 1 ELSE 0

Expand(path) == IF ShouldExpand(path) THEN Root \o path ELSE path

\* Mutant: the root itself becomes an empty path.
UnexpandEmpty(path) ==
  IF IsPrefix(Root, path) THEN SubSeq(path, Len(Root) + 1, Len(path)) ELSE path

Unexpand(path) ==
  IF path = Root THEN <<"/">>
  ELSE IF IsPrefix(Root, path) THEN SubSeq(path, Len(Root) + 1, Len(path))
  ELSE path
=============================================================================
