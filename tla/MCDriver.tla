------------------------------- MODULE MCDriver -------------------------------
(***************************************************************************)
(* The three printers of the program, for ELF, and command lines on IRs    *)
(* with up to three modules.  The function "f" is skipped by default.      *)
(***************************************************************************)
EXTENDS Driver

MCFormat   == {"elf", "pe"}
MCSyntax   == {"intel", "att", "aarch64"}
MCFactory  == {"Intel", "Att", "AArch64"}
MCFunction == {"f", "g"}

Registers1(s, f, d) ==
  [formats |-> <<"elf">>, syntaxes |-> <<s>>, factory |-> f, isDefault |-> d]

MCRegistrations ==
  {Registers1("intel", "Intel", TRUE), Registers1("att", "Att", FALSE),
   Registers1("aarch64", "AArch64", TRUE)}

ASSUME OnePair == OnePairEach

MCDefaultSkip == [f \in MCFactory |-> {"f"}]

Elf(a) == [format |-> "elf", addressed |-> a]
Pe     == [format |-> "pe", addressed |-> TRUE]

(* A plain run on an IR with two modules, one of them without addresses.    *)
Plain ==
  [program |-> "pprinter", found |-> TRUE, modules |-> <<Elf(TRUE), Elf(FALSE)>>,
   format |-> None, syntax |-> None, keep |-> {}, skip |-> {},
   output |-> "extension", locked |-> {}, module |-> 0, remove |-> FALSE]

(* What is printed. *)
Inputs ==
  {[Plain EXCEPT !.found = FALSE]} \cup
  {[Plain EXCEPT !.modules = ms, !.format = f, !.syntax = s] :
     ms \in {<<>>, <<Pe>>, <<Elf(TRUE)>>, <<Elf(FALSE), Pe>>, <<Elf(TRUE), Elf(TRUE), Elf(FALSE)>>},
     f \in {None, "elf", "pe"}, s \in {None, "att"}}

(* Where to. *)
Outputs ==
  {[Plain EXCEPT !.modules = ms, !.output = o, !.locked = l] :
     ms \in {<<Elf(TRUE)>>, <<Elf(TRUE), Elf(FALSE), Elf(TRUE)>>},
     o \in {"no filename", "extension", "no extension"}, l \in {{}, {0}, {1}}} \cup
  {[Plain EXCEPT !.output = None, !.module = m] : m \in -1 .. 2} \cup
  {[Plain EXCEPT !.output = o, !.program = "binary"] : o \in {None, "extension"}}

(* Which functions. *)
Policies ==
  {[Plain EXCEPT !.keep = k, !.skip = s, !.program = p] :
     k \in SUBSET MCFunction, s \in SUBSET MCFunction, p \in {"pprinter", "binary"}}

(* What gtirb-layout may be asked for. *)
Layouts ==
  {[Plain EXCEPT !.program = "layout", !.found = f, !.modules = ms, !.output = o,
                 !.locked = l, !.remove = r] :
     f \in BOOLEAN, ms \in {<<>>, <<Elf(FALSE)>>, <<Elf(TRUE), Elf(FALSE)>>},
     o \in {"no filename", "extension", "-"}, l \in {{}, {0}}, r \in BOOLEAN}

MCRequests == Inputs \cup Outputs \cup Policies \cup Layouts
===============================================================================
