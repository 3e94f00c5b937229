---------------------------- MODULE MCLibrarySearch ----------------------------
(***************************************************************************)
(* Two modules that need three libraries, one of them twice and one left   *)
(* to the linker, on a small file system: a user's directory, one of the   *)
(* binary and the working directory, with files and links between them.    *)
(***************************************************************************)
EXTENDS LibrarySearch

MCDir  == {"u", "b", "w"}
MCName == {"a", "n", "libc"}

None      == [kind |-> "none"]
File      == [kind |-> "file"]
Other     == [kind |-> "other"]
Denied    == [kind |-> "denied"]
Abs(d, n) == [kind |-> "abs", to |-> <<d, n>>]
Rel(n)    == [kind |-> "rel", to |-> n]

(* What the paths of the file system may hold; the others hold nothing.     *)
Contents ==
  [ua : {None, File, Other, Denied, Rel("n"), Abs("b", "n"), Abs("b", "a")},
   ba : {None, File, Rel("n"), Abs("u", "n")},
   un : {None, File, Rel("a"), Abs("b", "a")},
   bn : {None, File, Abs("u", "n")},
   wn : {None, File},
   wa : {None, Rel("n")}]

Files(c) ==
  [p \in MCDir \X MCName |->
     CASE p = <<"u", "a">> -> c.ua [] p = <<"b", "a">> -> c.ba
       [] p = <<"u", "n">> -> c.un [] p = <<"b", "n">> -> c.bn
       [] p = <<"w", "n">> -> c.wn [] p = <<"w", "a">> -> c.wa
       [] OTHER -> None]

MCRequests ==
  {[user  |-> <<"u">>,
    mods  |-> <<[libs |-> <<"a", "libc", "n">>, paths |-> <<"b">>],
                [libs |-> <<"a">>, paths |-> <<"w">>]>>,
    files |-> Files(c)] : c \in Contents}
===============================================================================
