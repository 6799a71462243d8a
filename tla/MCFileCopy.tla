----------------------------- MODULE MCFileCopy -----------------------------
(* Instances of FileCopy for TLC: source trees, and what the receiving     *)
(* directory holds beforehand.                                             *)
EXTENDS FileCopy

Dir == MkNode("dir", "final", 0, <<>>, <<>>)
Reg(content) == MkNode("reg", "final", Len(content), content, <<>>)
Link(target) == MkNode("link", "final", Len(target), <<>>, target)

(* d/ with a two-chunk file and a link to it *)
SmallTree ==
    [p \in {<<"d">>, <<"d", "f">>, <<"d", "l">>} |->
        CASE p = <<"d">>      -> Dir
          [] p = <<"d", "f">> -> Reg(<<"c1", "c2">>)
          [] p = <<"d", "l">> -> Link(<<"f">>)]

(* three files, one of them empty, and a link, at depth one and two *)
QuotaTree ==
    [p \in {<<"d">>, <<"d", "d">>, <<"d", "f">>, <<"d", "l">>, <<"f">>} |->
        CASE p = <<"d">>      -> Dir
          [] p = <<"d", "d">> -> Reg(<<>>)
          [] p = <<"d", "f">> -> Reg(<<"c1", "c2">>)
          [] p = <<"d", "l">> -> Link(<<"f">>)
          [] p = <<"f">>      -> Reg(<<"c1", "c2">>)]

(* A receiving directory that is empty, or that earlier copies have left   *)
(* with d in it, a file where a link is to go and a link where a file is   *)
(* to go, or with a file in the place of d.                                *)
NoDst == {EmptyTree}

TakenDsts ==
    NoDst \cup
    {[EmptyTree EXCEPT ![<<"d">>]      = MkNode("dir", "rwx", 0, <<>>, <<>>),
                       ![<<"d", "f">>] = Link(<<"l">>),
                       ![<<"d", "l">>] = Reg(<<"c2">>)],
     [EmptyTree EXCEPT ![<<"d">>]      = Reg(<<"c2">>)]}

(* What garbled bytes may look like: a header that is refused for its type *)
(* or its length, or at the end of the file for its time stamp, or that    *)
(* ends the copy early; another name, other data or another target.        *)
NoGarbage == {}

InPlace ==
    {Header("other", 3, 0, TRUE), Header("reg", 3, LLONG_MAX + 1, TRUE),
     Header("reg", 3, 2, FALSE), Header("reg", 0, 1, TRUE), DataItem("c1")}
    \cup {[t |-> "name", name |-> <<"f">>, len |-> n] : n \in {2, 3}}
    \cup {[t |-> "target", v |-> <<"d">>, len |-> 1]}

(* A header with a longer file than there is, or of another type and with  *)
(* less to read: what follows is not read where it begins.                 *)
OutOfPlace == {Header("reg", 3, 3, TRUE), Header("link", 3, 1, TRUE)}

AnyGarbage == InPlace \cup OutOfPlace
=============================================================================
