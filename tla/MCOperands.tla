------------------------------ MODULE MCOperands ------------------------------
(***************************************************************************)
(* The tables of MCSymbolNames; instructions are in some of them only: s   *)
(* is forwarded or not, from a section of stubs or of addresses, t has a   *)
(* name that is avoided, the address of both is skipped or not, and u has  *)
(* the name of s and an address or none.                                   *)
(***************************************************************************)
EXTENDS Operands, MCSymbolNames

HasCode(t) ==
  /\ t.name = [s \in MCSym |-> IF s = "t" THEN <<"FS">> ELSE <<"f">>]
  /\ t.addr \in {[s \in MCSym |-> IF s = "u" THEN a ELSE 2] : a \in {1, NoAddr}}
  /\ t.entries = {1}

Imm(n)  == [Operand EXCEPT !.type = "imm", !.num = n]
Mem(b, n) == [Operand EXCEPT !.type = "mem", !.base = b, !.num = n]
With(op, e) == [op EXCEPT !.expr = e]
Special(ty, w) == [Operand EXCEPT !.type = ty, !.words = w]

Expr(s, n, p) == [sym |-> s, addend |-> n, const |-> TRUE, prefix |-> p]
Sum == [Expr("s", 0, "") EXCEPT !.const = FALSE]

Inst(p, m) ==
  [printer |-> p, id |-> "other", group |-> "other", sse |-> FALSE, immAt |-> 4,
   dispAt |-> 2, post |-> FALSE, info |-> TRUE, means |-> m]
Groups(insts) == {[i EXCEPT !.group = g] : i \in insts, g \in {"call", "jump", "other"}}
Named(i, id)  == [i EXCEPT !.id = id]

X86Exprs == {Expr("s", 0, ""), Expr("t", 4, ""), Expr("u", -4, "")}

(* Places with every combination of registers, with and without a number.   *)
Places ==
  {[Operand EXCEPT !.type = "mem", !.seg = r[1], !.base = r[2], !.index = r[3], !.scale = r[4],
                   !.num = n] :
     n \in {0, 8},
     r \in {<<None, "rax", None, 1>>, <<"fs", None, None, 1>>, <<None, None, None, 1>>,
            <<"fs", "rax", "rcx", 1>>, <<None, None, "rcx", 4>>, <<None, "rip", None, 1>>}}

X86(p) ==
  LET lone == {Imm(n) : n \in {-4, 0, 4}} \cup {Reg("rax")} \cup Places
                \cup {With(op, e) : op \in {Imm(0), Mem("rip", 0), Mem(None, 0), Mem("rax", 8)},
                                    e \in X86Exprs}
      two == {<<With(Mem("rax", 0), e), With(Imm(1), f)>> :
                e \in {NoExpr, Expr("s", 0, "")}, f \in {NoExpr, Expr("t", 4, "")}}
  IN  Groups({Inst(p, <<op>>) : op \in lone})
        \cup {Inst(p, m) : m \in two \cup {<<With(Imm(2), Expr("t", 0, "")), Imm(0)>>,
                <<With(Imm(2), Sum)>>, <<Special("invalid", <<>>)>>}}
        \cup {[Inst(p, <<Mem("rax", 0), Imm(1)>>) EXCEPT !.dispAt = 0, !.immAt = 3]}
        \cup {Named(Inst(p, <<>>), "movs"), Named(Inst(p, <<Mem("rdi", 0)>>), "stos"),
              [Named(Inst(p, <<Reg("xmm1"), Mem("rax", 0)>>), "movs") EXCEPT !.sse = TRUE],
              Named(Inst(p, <<Reg("st3")>>), "fxch"),
              Named(Inst(p, <<Reg("xmm1"), Mem("rax", 0)>>), "comisd"),
              Named(Inst(p, <<Reg("xmm1"), Reg("xmm2")>>), "comisd"),
              Inst(p, <<[Mem("rax", 0) EXCEPT !.size = 64]>>)}
        \cup {Named(Inst(p, <<Reg("rax"), Reg("rcx"), Imm(n)>>), "imul") : n \in {-3, 3}}

X(r) == [Reg(r) EXCEPT !.words = <<r>>]
Here(n) == [Mem("x1", n) EXCEPT !.words = <<Open, "x1", Comma, "#8", Close>>]

AArch64 ==
  LET lo == Expr("t", 4, ":lo12:")
      p  == "aarch64"
  IN  Groups({Inst(p, <<op>>) : op \in {X("x0"), Imm(4), With(Imm(0), Expr("s", 0, ""))}})
        \cup {Inst(p, <<X("x0"), op>>) :
                op \in {With(Imm(0), lo), With(Imm(0), Expr("u", 0, "")), With(Here(8), lo),
                        With(Here(0), lo), Here(0), [Here(8) EXCEPT !.pre = TRUE],
                        [Here(0) EXCEPT !.index = "x2", !.shift = <<"lsl", 3>>],
                        [Here(0) EXCEPT !.index = "w2", !.ext = "sxtw", !.shift = <<"lsl", 3>>],
                        [X("x2") EXCEPT !.shift = <<"lsl", 3>>],
                        [X("w2") EXCEPT !.ext = "uxtw", !.shift = <<"lsl", 2>>],
                        [X("w2") EXCEPT !.ext = "uxtw"],
                        [Imm(1) EXCEPT !.shift = <<"lsl", 12>>],
                        [With(Imm(0), lo) EXCEPT !.shift = <<"lsl", 12>>],
                        [Operand EXCEPT !.type = "fp", !.num = 1328125],
                        [Operand EXCEPT !.type = "fp", !.num = 2500000],
                        [Operand EXCEPT !.type = "fp", !.num = 10625000],
                        Special("raw", <<"tpidr_el0">>), Special("invalid", <<>>)}}
        \cup {Inst(p, <<Special("raw", <<"c7">>), X("x0")>>),
              Inst(p, <<X("x0"), Here(8), Special("raw", <<"c7">>)>>),
              [Inst(p, <<X("x0"), Here(0), Imm(8)>>) EXCEPT !.post = TRUE],
              [Inst(p, <<X("x0"), With(Imm(0), lo)>>) EXCEPT !.info = FALSE],
              Inst(p, <<X("x0"), Imm(3), With(Imm(0), Expr("s", 4, ""))>>)}
        \cup {Inst(p, <<Special("barrier", w)>>) : w \in {<<"ish", "ld">>, <<"sy">>, <<"#5">>}}
        \cup {Inst(p, <<Special("prefetch", w), Here(0)>>) :
                w \in {<<"pld", "l1", "keep">>, <<"#6">>}}

MCInsts(t) ==
  IF ~HasCode(t) THEN {}
  ELSE IF t.endings THEN X86("intel") \cup X86("att") ELSE AArch64
===============================================================================
