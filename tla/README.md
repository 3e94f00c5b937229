# Verification of gtirb-pprinter

gtirb-pprinter turns a GTIRB file, the intermediate representation of a
disassembled binary, into assembly listings that can be assembled again, or into
a new binary by handing these listings to a compiler.  This directory holds TLA+
models of the parts of it that carry state or an algorithm worth checking, TLC
runs over small instances, and proofs that TLAPS checks for all instances.

Paths below are relative to the repository.

## 1. The system

Everything is one thread.  What makes the code hard is not concurrency but
walks over overlapping, possibly inconsistent input that write while they go,
containers that are changed while they are iterated, optional data that may be
absent, and steps of a pipeline that fail while the pipeline goes on.

| Component | State | Operations | Talks to |
|---|---|---|---|
| Layout library `src/gtirb_layout/gtirb_layout.cpp` | the module's sections, byte intervals with address, size, bytes and blocks; the CFG, which it only reads | `layoutModule`, `findAndMergeBIs`, `removeModuleLayout` | called by all three drivers on a module; moves blocks and symbolic expressions by GTIRB calls |
| Listing walk `PrettyPrinterBase::print` in `src/gtirb_pprinter/PrettyPrinter.cpp` | two cursors (code and data blocks sorted by address), the end `last` of the last block printed, `m_accum_comment`; the listing is an output stream | `print`, `printBlockOrWarning`, `printDataBlockOrWarning`, section headers and footers, labels, alignment, skipping | virtual calls into the syntax and target printers; reads AuxData tables; needs every block to have an address |
| Instruction and operand printing (`PrettyPrinter.cpp`, `IntelPrettyPrinter.cpp`, `AttPrettyPrinter.cpp`, `AArch64PrettyPrinter.cpp`) | none but capstone's handle | `fixupInstruction`, `printInstruction`, `printOperand*`, `printOp*`, the raw-operand scanner of AArch64 | called by `printBlock` for each decoded instruction |
| Symbol references and names (`PrettyPrinter.cpp`, `Syntax.cpp`) | the set of function entries, `SymbolForwarding` | `printSymbolReference`, `printSymbolDefinition`, `getForwardedSymbolName`, `formatSymbolName` | called by operands, data and labels: references and labels must agree on names |
| Printer registry and policy (`PrettyPrinter.cpp`, `*PrettyPrinter.cpp`) | the static maps of factories and default syntaxes; the skip sets of a `PrettyPrinter` | `registerPrinter`, `setFormat`, `setTarget`, `skipFunction`, `keepFunction`, ... | registration at static initialisation; drivers configure it, `print` builds a policy |
| Binary printer `src/gtirb_pprinter/ElfBinaryPrinter.cpp` | temporary assembly files, the compiler's arguments | `link`, `findLibrary`, `prepareSources` | prints every module to a file, runs a compiler as a child process |
| Drivers `src/gtirb_pprinter/driver/*.cpp`, `src/gtirb_layout/driver/gtirb_layout.cpp` | the loaded IR, options | `main` | load, lay out if needed, print or link, exit status |
| CFI directives and comments | none | `printCFIDirectives`, `printComments` | called at each offset that is printed |

What makes each of them correct:

* **Layout.**  Addresses of byte intervals are disjoint, in section order and
  without gaps; a merge moves blocks, symbolic expressions and bytes by the same
  amount; code that falls through becomes adjacent; the restarting recursion of
  `findAndMergeBIs` ends; a repeated layout is a fixed point.
* **Listing walk.**  Every block is dealt with once, in address order, and warned
  about exactly if it starts in a block that was printed; a label is defined once,
  and wherever a reference by name will need it; bytes go to the section they came
  from and stay at their distance from its start.
* **Operands.**  An assembler reads in the text the operands that the instruction
  had: without the implicit ones, with each symbol in the operand it was attached to.
* **CFI directives.**  A procedure that is opened is closed, in the listing as in the module.
* **Symbol names.**  A reference and the label it means print the same text,
  after forwarding, disambiguation and avoidance of register names.
* **Registry and policy.**  What was registered is what is found, whatever the
  order of the calls; a function that is both kept and skipped is kept.
* **Binary printer.**  No temporary file is left behind; libraries are searched
  in the order given, and the search ends.
* **Drivers.**  A step that fails is noticed by the next one and by the exit status.

The full list of hazards, each with its line and the properties that cover it,
is in `PROJECT.json`.

### 1.1 Conventions

GTIRB, capstone, Boost and the assembler are outside this repository.  They are
modelled only by what the code relies on: a byte interval holds blocks at
offsets, `cs_disasm` decodes a prefix of a block, `.align` pads to a multiple (which is so for
x86-64; for AArch64 its operand is an exponent), an
unfinished comment line swallows what is written next, capstone lists implicit operands
and, for AT&T's syntax, all of them in the opposite order.  Assertions are those of a
release build: none.

## 2. The modules

| Module | What it is |
|---|---|
| `Layout` | `layoutModule`, `findAndMergeBIs`, `removeModuleLayout` |
| `MCLayout` | the modules TLC lays out |
| `LayoutProofs` | theorems about `Layout` |
| `Listing` | what a listing of overlapping blocks promises, abstractly |
| `PrettyPrint` | `PrettyPrinterBase::print`; refines `Listing` |
| `MCPrettyPrint` | the modules TLC prints |
| `PrettyPrintProofs` | `PrettyPrint` implements `Listing`; where its labels, bytes and CFI directives end up |
| `Pipeline` | the drivers' treatment of one module; composes `Layout` and `PrettyPrint` |
| `MCPipeline` | the modules that go through it |
| `PipelineProofs` | it lays out as `Layout` does; nothing is lost or moved to another section on the way to the listing, and code that falls through still does there |
| `BinaryPrinter` | `ElfBinaryPrinter::link` and `TempFile`, several processes |
| `MCBinaryPrinter` | two processes, three names of files |
| `BinaryPrinterProofs` | files are cleaned up, and processes keep out of each other's way |
| `LibrarySearch` | `findLibrary` and `buildCompilerArgs` |
| `MCLibrarySearch` | small file systems with links |
| `LibrarySearchProofs` | libraries are found where the system would find them, and the linker is told the same paths |
| `SymbolNames` | labels and references to symbols, by their texts |
| `MCSymbolNames` | three symbols that share names and addresses in every way |
| `SymbolNamesProofs` | labels do not clash, references agree with the labels they mean and no others |
| `Operands` | the operands of instructions in three syntaxes; extends `SymbolNames`, which it refines |
| `MCOperands` | instructions for some of the modules of `MCSymbolNames` |
| `OperandsProofs` | `Operands` implements `SymbolNames`; its type invariant; operands can be read back |
| `Driver` | registration of printers and the `main`s of `gtirb-pprinter`, `gtirb-binary-printer` and `gtirb-layout` |
| `MCDriver` | the three printers of the repository, small IRs and command lines |
| `DriverProofs` | theorems about `Driver` |

### 2.1 Layout

| Model | Code |
|---|---|
| `sec`, `addr`, `size`, `bytes`, `bi`, `off` | parent, address, size and content of each `ByteInterval`; owner and offset of each block and symbolic expression |
| `Code`, `Data`, `SymExpr`, `mod.edges` | the items of the module and its CFG, which a layout never changes |
| `Pass`, `Merge`, `Reject`, `EndScan` | one iteration of the loop of `findAndMergeBIs` over the intervals of section `cur`, by its three outcomes, and its end |
| `Fronts`, `Backs`, `Pending`, `Mergeable` | `code_blocks_begin`, the last code block, the edges the loop does not `continue` past, the conditions for a merge |
| `MergeInto` | `setSize`, the three loops that move blocks and symbolic expressions, `insertBytes`, `removeByteInterval` |
| `Assign`, `EndAssign` | the loop of `layoutModule` over one section, the loop over the sections |
| `BeginLayout`, `Remove` | a call of `layoutModule`, all of `removeModuleLayout` |

A byte is named by the interval and offset it was loaded at, which is how the
properties say that a block still lies on *its* bytes.  When a block has several
pending edges, or several blocks share the first or last offset, any one may be
taken: that order belongs to GTIRB's containers.  A call that fails is final,
since the drivers do not call again; `BeginLayout` and `Remove` may follow each
other for ever otherwise, because `gtirb-layout` writes the module to a file and
can read it again.  The iterators that the code keeps while it moves blocks out
of the container (the comment in `layoutModule` knows of the difficulty) are
GTIRB's; the model has loops that visit each element once.

### 2.2 Listing and PrettyPrint

`Listing` knows elements with addresses and sizes and three states of each:
todo, printed, warned about.  The first element in address order is printed
unless it starts inside a printed one.

`PrettyPrint` is the code's way to do that, and everything it writes on the way:

| Model | Code |
|---|---|
| `CodeTurn`, `DataTurn`, `Finish` | the loops of `print` and what comes after them: which cursor moves, then `printBlockOrWarning` or `printDataBlockOrWarning` as a whole |
| `last` | the variable of the same name |
| `GapLabel`, `Footed`, `Headed` | `printSymbolDefinitionsAtAddress(last)`, `printSectionFooter`, `printSectionHeader` |
| `BlockText`, `DataText` | `printBlock` with `printFunctionHeader` and the labels in front of instructions, `printDataBlock` |
| `Unwind` | `printCFIDirectives`, at each instruction and at the end of the block |
| `Offset` | the place of an instruction among no-ops, which `printInstruction` writes byte by byte |
| `DirectiveOf`, `StringSize`, `SymbolicSize`, `DataSize` | `printDataBlockType`, `printString`, `printSymbolicData`, `printNonZeroDataBlock`, by the bytes they stand for |
| `Aligned` | `printAlignment` |
| `SkipEA`, `Containers`, `Excluded` | `shouldSkip`, `getContainerSection`, `shouldExcludeDataElement` |
| `Warn` | `printOverlapWarning` |

The listing is what an assembler would make of it: `curSec` and `filled` say in
which section and after how many bytes the next line goes, `labels` and `content`
record the place of each label and block, `unwind` has the CFI directives in order, `commented` says that the last line is
a comment with no line break, and `lost` has the addresses of what was written into
such a comment.  What capstone decodes of a code block is part of the input
(`decoded`, `insns`): a prefix, which ends at the first undecodable byte.  What the
lines of a data block assemble to is computed (`DataSize`) the way the code chooses
them: `.zero` for nothing but zeros, a directive by encoding or size for a symbolic
expression (`DirectiveOf`), `.string` without its zeros (`StringSize`), or bytes.
It can differ from the size of the block.  How many bytes a directive stands for
is the assembler's, so it is input too (`width`); TLC's is that for x86-64, where
`.word` has two bytes.  `Aligned` pads to a multiple, as `.align` does there.
A no-op of several bytes becomes as many `nop`s (`nops`, `nopSize`).  TLC's have one byte
each, as x86-64's do; modules of one kind have `nop`s of four, as on AArch64, which move
what is behind.  An
`endbr64` is a no-op here, since the fix-ups make it one.
Comments from the table of comments (`remarks`) matter only in that their lines end
an unfinished one.  Conditions on the
input (`WellFormed`) are those the code states or takes for granted: sections do
not overlap (a comment on `getContainerSection`), and hold their
blocks.  There is at most one symbol at an address, and its name is not the
model's business.  A section may be empty and have the address
of its neighbour; the properties about sections are conditional on that not being
so (`DistinctStarts`), since the code looks sections up by address.  A section without
intervals has no address at all (`NoBase`), so that no address is in it.  Of several
sections with one address `findSectionsAt` always yields the same one first; `found`
has these, one for each address.

### 2.3 Pipeline

| Model | Code |
|---|---|
| `NeedsLayout`, `LayOut`, `KeepLayout` | `if (!M.getAddress())` in the `main` of both printers |
| `RunLayout`, `Laid` | the call of `layoutModule`, whose result nobody reads |
| `Image` | the module as `print` reads it: addresses, sections, symbols, functions |
| `PrintModule`, `RunPrint` | `pp.print` for this module |
| `Misprint` | `pp.print` for a module without addresses or with overlapping sections |

The module has the variables of both components and one more, `stage`.  `Layout`
leaves addresses of intervals and offsets of items; `Image` computes from them
what `PrettyPrint` starts with.  GTIRB computes a section's address from its
intervals: the first of them, and none when an interval has none.  `Misprint` ends
the model's knowledge: such a module makes the code dereference an empty optional
or pick one of several sections.  The components are instances of `LayoutProofs` and
`PrettyPrintProofs`, which extend `Layout` and `PrettyPrint`, so that the lemmas proved
there can be cited for the composition.

### 2.4 BinaryPrinter and LibrarySearch

| Model | Code |
|---|---|
| `TempFile`, `Destroy` | constructor and destructor of the class `TempFile` |
| `BeginPrinting`, `PrintModule`, `NotWritable` | the loop of `link` over the modules |
| `PrintExits` | `exit(1)` in `printOperand`, called from `pp.print` |
| `FindCompiler`, `ArgsThrow`, `Compile`, `Return` | `search_path`, an exception in `buildCompilerArgs`, `bp::system`, the end of `link` |
| `PassInfix`, `CallFindLibrary`, `Found`, `NotFound` | the loop of `buildCompilerArgs` over the libraries |
| `TryPath`, `FollowLink`, `NoFile`, `Throw` | the loops of `findLibrary` |
| `AddPaths` | the two loops that append `-L` and `-rpath` |

Processes share the directory `/tmp`; each step that touches it is one system
call's worth, except that `exists` and `remove` in the destructor are one step,
which makes no difference while names are only used by the process that drew them.  `mkstemps` is
modelled by its contract, a name of no existing file, and by its failure, which
leaves a name behind that the code then opens and removes.  In `LibrarySearch`
the file system does not change during the search.

### 2.5 SymbolNames

| Model | Code |
|---|---|
| `table` | the module's symbols, `SymbolForwarding`, `functionEntry`, `skipEA` as a set of addresses, the section each address is in |
| `Define`, `TextsAt` | what the listing says at one address: `printFunctionHeader` (`Headers`), then `printSymbolDefinitionsAtAddress` (`DefinitionsAt`) |
| `FunctionNames`, `Definition` | `getFunctionName`, the label of a symbol |
| `Ambiguous` | `isAmbiguousSymbol` |
| `ReferForwarded`, `ReferSkipped`, `ReferByName`, `ReferAmbiguous` | the four cases of `printSymbolReference` |
| `Ending` | `getForwardedSymbolEnding`; `endings` is `FALSE` for AArch64, which overrides its caller |
| `Format`, `Local`, `Numbered`, `Unknown` | what `formatSymbolName`, `getSymbolName` and the two formats of `getFunctionName` make of a name or address |

Texts are values; what the model knows of them is which are equal.  Addresses are
printed in any order and references at any time, since a reference may stand
before or after the label.  `ref` is the last reference printed; nothing
in the code depends on earlier ones.  At an address that is skipped a block prints nothing, but
if no block is printed there, the gap or the end of the block in front prints the
labels all the same (`PrettyPrinter.cpp:257`).  `PrettyPrint` says when; here either may be so.

### 2.6 Operands

| Model | Code |
|---|---|
| `BeginInstruction` | `printInstruction` up to the mnemonic: labels, then the instruction |
| `Decoded`, `Fixed` | what capstone decodes, what `fixupInstruction` makes of it |
| `PrintNumber`, `PrintSymbolic`, `NoPrefixes`, `Exit` | `printOperand` of one operand, by its outcomes: no symbol, a reference by one of the four actions of `SymbolNames`, a missing table, an invalid operand |
| `Lookup`, `Found`, `Symbolic` | `findSymbolicExpressionsAt` and the conditions around it, `getSymbolicImmediate` |
| `InData` | the argument of the same name |
| `IntelText`, `AttText`, `AArch64Text` | `printOpRegdirect`, `printOpImmediate`, `printOpIndirect` of the three printers |
| `RawWords`, `Barriers`, `Prefetches`, `Extended`, `ShownShift`, `WrittenBack`, `SixDigits` | the rest of AArch64's: `printOpRawValue`, `printOpBarrier`, `printOpPrefetch`, `printExtender`, `printShift`, the exclamation mark, `os << op.fp` |
| `Prefix` | `printPrefix` |
| `EndInstruction`, `Elsewhere` | the end of `printOperandList`; everything that is not an instruction |

`Operands` extends `SymbolNames` with the instruction at hand, the texts of its operands
and a state.  The text of an operand is a record of the parts that are printed, with a
mark (`OFFSET`, `$`, `*`, `#`); the order of the parts is each syntax's own and no
property's business.  An instruction says what its operands are (`means`), and from this
follow both what capstone lists and where the module has symbolic expressions, so
that code and property start from the same fact on different ways.  Each instruction
is one of the printer's that goes with the table; Intel's and AT&T's may alternate, which no single
listing does, and which makes no difference as nothing is kept from one to the next.  Numbers of AArch64's
instructions are taken to differ from the x86 ones that `fixupInstruction` compares them with.

### 2.7 Driver

| Model | Code |
|---|---|
| `Register` | one call of `registerPrinter` by a static initialiser; `factories` and `defaults` are the two static maps |
| `LoadFails`, `LayOut`, `Unsupported`, `Configure` | `main` up to the configured `PrettyPrinter` `pp` |
| `SkipFunctions`, `PrintTo`, `CannotPrintTo` | `PrettyPrinter::print`: the policy, the listing, what happens without a factory or without addresses |
| `NoFilename`, `NameThrows`, `WriteModule`, `CannotOpen`, `AllWritten` | the loop that writes a file for each module, and `getAsmFileName` |
| `NoSuchModule`, `WriteStdout` | the branch for the standard output |
| `LinkPrint`, `LinkReturns`, `LinkThrows` | the call of `link`, which `BinaryPrinter` has in detail |
| `BeginTool`, `ToolLayOut`, `ToolFails`, `ToolRemove` | `gtirb-layout`: `main` up to the loop over the modules, and an iteration of that loop |
| `ToolSave`, `ToolCannotOpen` | `gtirb-layout`: writing the IR to a file or, for `-`, to the standard output |

A request is a command line of one of the three programs with its IR.  The two
printers share the model of what their `main`s have in common, up to the configured
`PrettyPrinter`; `gtirb-layout` registers no printers.  The file with number `n` is the one for
which `getAsmFileName` is given index `n`: `x.s` for 0, `x1.s` for the second module, and so on, though the help text of
the option counts otherwise (section 3); for `link` it is the `n`-th temporary file.  `out` has what is written to each, `whole` whether
all of it was.  `Pipeline` has the layout and the listing of one module in
detail; here a layout may leave a module without addresses (`valid`), and a listing
or a saved IR may be cut off anywhere.

## 3. The runs

| Run | Module, configuration | Expected | Question |
|---|---|---|---|
| `layout` | `MCLayout`, `MCLayout.cfg` | pass | does any sequence of layouts and removals keep modules intact and lay them out correctly? |
| `layout_fallthrough` | `MCLayout`, `MCLayoutFallthrough.cfg` | violation | is all code that falls through merged, as a comment says it must be? |
| `listing` | `MCPrettyPrint`, `MCPrettyPrint.cfg` | pass | is every listing right about overlaps, labels, sections and places? |
| `listing_comment` | `MCPrettyPrint`, `MCPrettyPrintLost.cfg` | violation | is what does not overlap always printed, as a doc comment says? |
| `pipeline` | `MCPipeline`, `MCPipeline.cfg` | pass | does a module survive the layout and the printing together? |
| `library` | `MCLibrarySearch`, `MCLibrarySearch.cfg` | pass | are libraries found where the search paths say, in order? |
| `library_links` | `MCLibrarySearch`, `MCLibrarySearchLinks.cfg` | violation | do links lead to a regular file, as a comment says? |
| `binary` | `MCBinaryPrinter`, `MCBinaryPrinter.cfg` | pass | does `link` compile its own listings and clean up, whatever fails? |
| `temp_files` | `MCBinaryPrinter`, `MCBinaryPrinterExit.cfg` | violation | are temporary files always deleted, as a comment says? |
| `symbols` | `MCOperands`, `MCOperands.cfg` | pass | do references and labels agree on texts, and are operands printed so that they can be read? |
| `driver` | `MCDriver`, `MCDriver.cfg` | pass | do the programs write what was asked for, where it was asked for, or say that they did not? |
| `asm_names` | `MCDriver`, `MCDriverNames.cfg` | violation | does each module get a file name, as a comment says? |

**`layout`**  Three byte intervals in up to two sections (a section may be split
around another one's interval), three code blocks placed in them in every way,
one of two bytes, a data block before or after the code with a symbolic
expression on it, every choice of one fallthrough edge per block to another
block or to a proxy.  Three intervals are the least with a second merge after a
first, where the first and the last block of an interval differ; two sections
are the least in which addresses carry on from one to the next.  The layout
can be repeated without bound, the state space is finite anyway since a merge
removes an interval.
`ItemsIntact` and `DistanceKept` say that merging is coherent; `NonOverlapping`
and `Packed` say what addresses are; `NothingPending` that a successful layout is
a fixed point of `findAndMergeBIs`; `SoleBlockAdjoins` that a merge puts the code
that falls through next to its target; `Terminates` that a call returns.  The
`SoleBlockAdjoins` property is limited to intervals with one code block, and to
modules with at most one fallthrough edge out of a block: otherwise the block the
code checks and the block whose edges it follows are different ones.

**`listing`**  Two code blocks and a data block of zero to two bytes, anywhere in
two sections that touch each other or leave a gap; symbols everywhere or
nowhere; four policies (print all, debug, skip one function, skip one section
while the other is an array of functions); data that is bytes, a string with or without
its zero, nothing but zeros, or a symbol, and code that is decoded completely or not.
The kinds of data are all tried with the first policy, since the others print strings,
zeros and bytes alike.  Three blocks are the least with two that overlap and one behind them.
Blocks of two bytes are the least in which a block starts strictly inside another
one and in which a symbol falls between two instructions' ends.
`LabelOnce` and `LabelDefined` are about labels, `InOwnSection` and `PlaceKept`
about bytes; `ListsBlocks` is the refinement of `Listing`; `Terminates` says that
`print` returns.  `InOwnSection` presupposes that each section begins with a block
(`SectionsLed`): otherwise no header is ever printed for it, and `--debug` prints
the blocks of skipped sections without their header.  `PlaceKept` is about a label or
a block in front of which no byte of its section is missing (`Solid`): each lies in a block
that was printed completely (`Whole`), whatever happened in other sections or further behind.
It asks for a section that was entered with its header and starts at a multiple of
16 (`Entered`), since the alignment directives are taken
from the original addresses, and for `lost = {}`.  It and `LabelOnce` leave out modules in which an
empty data block is printed as a directive (`EmptyTakesNothing`): the code looks for the symbolic
expression at its address, finds that of the block behind it, and prints this twice.  `LabelDefined` asks that there
are no warnings: a block that is left out takes its labels with it.
`CfiPaired` says that procedures are opened and closed by turns in the listing if they are so in
the module, read block after block (`ModulePaired`).  It
leaves out modules in which a procedure reaches over a block that is not
printed, a directive is attached to the middle of an instruction, or code cannot be decoded
(`Attached`): these directives are left out without the other ones of the procedure.

**`pipeline`**  The modules of `layout`, each as it is, with addresses ten bytes apart
for its intervals, and with its data block on top of the code before it.  The
first kind is laid out when an address is missing, the second kept or, when a
section is split around another one, misprinted.  `AllListed` says that a layout
leaves nothing that overlaps, so that every block is printed; `FallsThrough` follows
control flow from the loaded intervals to places in the listing, if it does not go
round in circles through them (`Acyclic`); `LoadedSection`
follows each block from the section it was loaded in to the section it is
printed in, if the module was laid out as well as if its layout was kept.  The first two are about
modules that were laid out successfully.  The printer's own bounds are `listing`'s business, so `Image` has one policy here.

**`library`**  Two modules, three libraries (one by both modules, one left to the
linker), three search paths, and every content of six paths from files,
absolute and relative links, other things and ones that may not be looked at:
enough for chains of three links, cycles, dangling links and shadowed files.
`FirstMatch` compares the arguments with where the operating system would find
the library; it is conditional on relative links being in the working directory
(`TextIsPath`).  `Terminates` is conditional on there being no cycle: on a
cycle the code does not end.

**`binary`**  Two processes, one with two modules and one with one, and three
names, as many as there are modules: two files of one process, and a name that is
used again by the other.  Any stream may fail to open, any listing be cut off,
any print exit, the compiler be missing, and the arguments throw.  The two
properties about other processes are conditional on `mkstemps` having worked
(`MkstempsWorked`); `CleansUp` is not.  The names are symmetric.

**`symbols`**  Three symbols at two addresses or without one, with every choice among
four names: a plain one, one that is avoided, the one it is given instead, and one
that looks generated; function entries nowhere, at one address and at both; an
address that is skipped or none; one symbol forwarded to another or not, from the
two kinds of sections that add an ending, and on AArch64.  Three symbols are the least
with an ambiguous pair and a third one whose name may be taken for theirs.
`LabelsUnique` and `RefersToNoOther` are conditional on no symbol having a name
that looks generated from another one (`NoLookalikes`): the code does not look for such names.
`RefersToLabel` leaves out forwarded references to names that are ambiguous
or avoided: they print the bare name, which is nobody's label then.
The modules with one particular choice of names and addresses, in all kinds of forwarding,
also have instructions: about a hundred each for Intel and AT&T and forty for AArch64, made of
operands of each type alone, with every combination of
registers, with and without numbers and symbols, and of pairs in which one could be
taken for the other; `ImmRange` is 16.  Instructions do not remember each other, so one
at a time is enough, at any point of the listing.
`ReadsBack` compares them with what an assembler reads (`TypeRead`, `MarkFits`, `ValueRead`,
`Reads`).  `Expressible` names what it leaves out, and each of these cases, if it were
not left out, would break it:
fix-ups for AT&T of `stos`, `fxch` and a negative factor of `imul`; two immediates of which
one is symbolic; on AArch64 registers with a shift alone, extended indexes, symbols where
the encoded number is 0 or shifted, and numbers of more than six digits; sums of two symbols; a
symbol that is skipped behind `rip`.  All are among the hazards in `PROJECT.json`.

**`driver`**  The three registrations of the program (two of them defaults for the
same format) in every order; IRs of no, one, two and three modules, of which some
have no addresses or another format; formats and syntaxes given or not; every kind of output
name, with a file that cannot be opened first or second; every choice of functions to keep and to
skip out of one that is skipped by default and one that is not.  Three modules are the least in
which a file is written after one that could not be opened.
`FailureTouchesNothing` and `OwnFiles` are about exit status and files, `KeepWins`
about the policy, `PrinterThere` and `DefaultWorks` about the registry in any order,
`Terminates` about the loops.  Command lines of `gtirb-layout` have every kind of output,
with and without `--remove`, on IRs of no, one and two modules; `SavedMeansDone` says
that nothing is saved that was laid out in part only.  `OwnFiles` and `FailureTouchesNothing` say nothing
about the modules whose files cannot be opened: they are left out and the status is success.
`OwnFiles` counts files as the code does, which is not what the help text says (see below).

**Violations.**
* `layout_fallthrough`: `findAndMergeBIs` reads the last code block of an interval
  as the source, but follows the edges of the first one
  (`src/gtirb_layout/gtirb_layout.cpp:95`).  After one merge these differ, and the
  rest of a chain of intervals stays unmerged.
* `listing_comment`: `printOverlapWarning`
  (`src/gtirb_pprinter/PrettyPrinter.cpp:290`) does not end its line.  If no
  label, footer or header comes between, the next block's first line, a label or
  data, becomes part of the comment.  Code begins with an end of line and is not
  affected.
* `library_links`: `read_symlink` gives the text of a link, and `findLibrary` takes it
  for a path (`src/gtirb_pprinter/ElfBinaryPrinter.cpp:73`), so that a relative link
  is looked up in the working directory.
* `temp_files`: an invalid operand ends the process with `exit(1)`
  (`src/gtirb_pprinter/PrettyPrinter.cpp:543`) and no destructor of `link`'s
  `TempFile`s runs.
* `asm_names`: for a name without an extension `getAsmFileName` appends the number
  and then inserts it at `npos` as well
  (`src/gtirb_pprinter/driver/pretty_printer.cpp:29`), which throws at the second module.

**A disagreement without a run.**  The help text of `--asm`
(`src/gtirb_pprinter/driver/pretty_printer.cpp:43-44`) says that the modules go to
"files of the form FILE, FILE_2 ... FILE_n".  In the code the second module's file has number 1,
not 2, in front of the extension, not behind the name: `x.s` and `x1.s`.  The test
`tests/pprinter_end2end_test.py:38` expects what the code does.  `OwnFiles`
states the numbers of the code, and by the theorem `EachModuleHasItsFile` no file has the number that the help text
gives it, except the first, which has none.

**Fairness.**  `Layout` has weak fairness on the steps of a call that has begun,
and none on beginning one; `PrettyPrint` on its whole next-state relation.  `LibrarySearch` and `Driver` have it too.  They
are functions that run to their return on one thread.  `Pipeline`,
`BinaryPrinter`, `SymbolNames` and `Operands` state no fairness and no liveness: a process may be killed at any
point.

**Deadlock** is not checked: all the modules are calls that return or may exit, and a failed layout is final.

## 4. The proofs

| Theorem | Says, for every value of the constants |
|---|---|
| `LayoutProofs!TypeCorrect` | the type invariant of `Layout` |
| `LayoutProofs!ItemsIntactAlways` | `ItemsIntact`: each item lies on its own bytes |
| `LayoutProofs!DistanceKeptAlways` | `DistanceKept`: what was in one interval keeps its distance |
| `LayoutProofs!NonOverlappingAlways` | `NonOverlapping`: addresses are disjoint and in the order of sections |
| `LayoutProofs!PackedAlways` | `Packed`: there are no gaps |
| `LayoutProofs!NothingPendingAlways` | `NothingPending`: a successful layout is a fixed point |
| `LayoutProofs!SoleBlockAdjoinsAlways` | `SoleBlockAdjoins`, if no block falls through to two (`OneFallthrough`) |
| `SymbolNamesProofs!TypeCorrect` | the type invariant of `SymbolNames` |
| `SymbolNamesProofs!LabelsUniqueAlways` | `LabelsUnique`: no text is the label of two addresses |
| `SymbolNamesProofs!RefersToNoOtherAlways` | `RefersToNoOther`: no reference is another symbol's label |
| `SymbolNamesProofs!RefersToLabelAlways` | `RefersToLabel`: a reference is its own symbol's label |
| `OperandsProofs!AllTypesCorrect` | the type invariant of `Operands` |
| `OperandsProofs!OperandsRefine` | `Operands` implements `SymbolNames` |
| `OperandsProofs!InstructionsLabelsUnique`, `InstructionsRefersToNoOther`, `InstructionsRefersToLabel` | hence the three properties also for listings with instructions |
| `OperandsProofs!OperandsReadBack` | `ReadsBack`: an assembler finds the operands of an instruction in its text |
| `PrettyPrintProofs!TypeCorrect` | the type invariant of `PrettyPrint` |
| `PrettyPrintProofs!ListsBlocksAlways` | `PrettyPrint` implements `Listing` |
| `PrettyPrintProofs!NoOverlapAlways` | hence no printed block covers the first byte of another |
| `PrettyPrintProofs!BytesStayInTheirSection` | `InOwnSection` |
| `PrettyPrintProofs!LabelsAreDefined` | `LabelDefined`: what is referred to by name has a label |
| `PrettyPrintProofs!LabelsAreDefinedOnce` | `LabelOnce` |
| `PrettyPrintProofs!DistancesAreKept` | `PlaceKept`: distances from the section's start are those of the module |
| `PrettyPrintProofs!CfiPairedAlways` | `CfiPaired`: procedures are opened and closed by turns |
| `PipelineProofs!LaysOut` | `Pipeline` implements `Layout` |
| `PipelineProofs!LoadedSectionAlways` | `LoadedSection` |
| `PipelineProofs!AllListedAlways` | `AllListed`, in modules without empty blocks (`NoEmptyBlocks`) |
| `PipelineProofs!FallsThroughAlways` | `FallsThrough`, in modules without empty blocks where no block falls through to two (`NoEmptyBlocks`, `OneFallthrough`) |
| `BinaryPrinterProofs!TypeCorrect` | the type invariant of `BinaryPrinter` |
| `BinaryPrinterProofs!NothingLeft` | `CleansUp`: a process that returned leaves no file behind |
| `BinaryPrinterProofs!CompilerGetsOwnListings` | `OwnListings`: the compiler is given the listings of this process's modules, in order |
| `BinaryPrinterProofs!FilesOfOthersUntouched` | `OthersUntouched`: only the process that made a file writes or removes it |
| `LibrarySearchProofs!TypeCorrect` | the type invariant of `LibrarySearch` |
| `LibrarySearchProofs!FirstMatchAlways` | `FirstMatch`: each library is the first file on the search paths, in the order of the libraries |
| `LibrarySearchProofs!SamePathsAlways` | `SamePaths`: the linker gets the same search paths in the same order |
| `DriverProofs!TypeCorrect` | the type invariant of `Driver` |
| `DriverProofs!KeptFunctionsArePrinted` | `KeepWins`: a function that is kept and skipped is kept |
| `DriverProofs!FailedRunsWriteNothing` | `FailureTouchesNothing` |
| `DriverProofs!OnlyFinishedWorkIsSaved` | `SavedMeansDone` |
| `DriverProofs!EachModuleHasItsFile` | `OwnFiles`, with the numbers of the code, not those of the help text |
| `DriverProofs!AcceptedTargetHasPrinter` | `PrinterThere`, if each registration has one format and one syntax (`OnePairEach`) |
| `DriverProofs!DefaultSyntaxWorks` | `DefaultWorks` |

### 4.1 Assumptions

The theorems assume what the modules assume of their constants, which TLC evaluates
for the instances of the runs:

* `SizesAssumption`, `ModulesAssumption`: numbers of intervals and sections are natural
  numbers; the loaded modules are of the right shape and no item reaches past its interval.
* `BlockAssumption`, `SectionAssumption`, `ImagesAssumption`: no block is both code and data,
  `NoSection` is not a section, and the modules that are printed are `WellFormed`.
* `LayoutAssumption`, `NamedAssumption`, `EntryAssumption`: in `Pipeline`, those of `Layout`;
  sections have different names, none of them `NoSection`; functions start at code blocks,
  and no block is both code and data.
* `NamesAssumption`, and `GeneratedAssumption`: names that are generated at different
  addresses differ, since each ends with its address.
* `ImmAssumption`, `InstsAssumption`: what capstone's and the module's descriptions of an
  instruction are like.  `OperandOf`: an operand has the fields of its type and processor, and
  only an immediate or a place in memory stands for a symbol, which is one of the module.
  `FixedUp`: the instructions that `fixupInstruction` knows have the operands they have in
  the manual.  `Encoded`: an immediate and a displacement are at different offsets; on AArch64, which has
  one expression for an address, it is the last operand's; an operand's part of `op_str` has no comma
  outside of brackets.
* `NModAssumption`, `ProcAssumption`: each process has some number of modules, and
  the value that stands for "no file" has no process as its owner.
* `DirAssumption`, `RequestsAssumption`: there are finitely many directories and names of files, so that
  a chain of links that does not end comes back to a path; requests are of the right shape.
* `DriverAssumption`: registrations name each format and syntax once, command lines have
  the combinations that the programs' options allow, and no IR has more than `MaxModules` modules.

Three hypotheses stand in the theorems themselves, because the code runs without them but
the property does not hold.  `OneFallthrough`: of two fallthrough edges the scan may follow
one and later merge along the other.  `OnePairEach`: `registerPrinter` moves
its factory into the map at the first pair of a format and a syntax, so that further pairs
get a null pointer.  The printers of the repository register one pair each.
`NoEmptyBlocks`: an empty block at the end of the last interval of a section is in no
section, as `findSectionsOn` has it, so that what `print` makes of the module is left open.

### 4.2 Arguments

**Layout.**  `ItemsIntact` is inductive with the type invariant: `MergeInto` moves
the bytes and the items of an interval by the same offset, and the merged
intervals are of one section and different.  `NonOverlapping` speaks of the final
state only, so it is strengthened to `Placement`: while section `cur` is
assigned, every interval in front of the cursor has an address, these are in order,
and none reaches past `A`.  Likewise `NothingPending` becomes `Scanning`: the
intervals the scan has passed, and those of all earlier sections, are settled.
The latter needs that a merge in section `cur` disturbs only intervals of
`cur`, which the check on the target's section provides, and which is why a
restart at the first interval of the section is enough.
`Packed` says that the addresses span the sum of the sizes, so its invariant `Sums` says
that `A` is the sum of what has an address.  A sum over a set is defined by
choosing its elements one after the other, and the lemmas `SolutionsAgree`, `SolutionExists` and
`TotalStep` show that the order does not matter and that a new interval adds its size.
In `SoleBlockAdjoins` the front block of an interval is also its back block, so the edge that is
followed leaves from the block whose end was checked.

**Listing.**  `PrettyPrint` remembers one address where `Listing` looks at all
printed elements.  The invariant `LastIsEnd` connects them: `last` is the largest
end of any printed block (or 0), and `InOrder`: nothing printed starts after
anything that is still to do.  Then a block starts below `last` exactly if the
block that ends at `last` covers its first byte.

*Sections.*  A header is printed only by the block that starts the section, if it is not
warned about, yet `InOwnSection` is about all its blocks.  `Led`: if a block that starts a section
was met, one that does was printed, since what could cover it would start there too.
`Current`: the assembler is in the section whose start was printed, unless something
behind that section was printed already.

*Labels.*  A symbol at `last` may be printed now, with the next block, at the next gap or at the
end, and must be printed by exactly one of these.  `AtEnd` is for at most one:
labels at `last` are at the current place, and neither the header nor the alignment of a
block that may follow moves that place.  `Complete` is for at least one: as long as there are no
warnings, only the symbol at `last` may still lack its label.  That a block is skipped
as a whole or not at all (`SkippedAsAWhole`) is what keeps a label that is referred
to from vanishing.

*Directives.*  Between two blocks some number of procedures is open in the module, 0 or 1 (`before` and
`after` in `Threaded`).  `Balanced`: as many are open in the listing before each block that is still to do,
if nothing of a procedure was lost so far.  A block that is printed adds its directives, all of them and
in order (`OpsAtAll`), and directives that end as the next ones begin can be joined (`RunsConcat`); a block that
is not printed has complete procedures only, so that nothing changes behind it (`PairedStays`).

*Places.*  `Unfilled`: nothing is assembled into a section that starts behind `last`.  `InStep`:
a section that `last` lies in is as full as the distance from its start to `last`, if no
byte in between is missing.  Then alignment directives, which are computed from the original
addresses, add nothing (`AlignedKept`).  `Whole` has to be asked of each block, and not of
the sum: a no-op of two bytes that becomes two `nop`s of four moves every label in the
block behind it, even if the end of the block happens to fit.

**Pipeline.**  `LayoutSteps` maps its steps to steps of `Layout` or stutters, hence `LaysOut`.  While
the module is printed, `Walk` has the invariants of `PrettyPrint` for the image of the module,
kept by the very lemmas that prove them there (`WalkStep`); that the image stays the same is
`ImageKept`, and that it is of the shape `PrettyPrint` is about follows from the addresses (`ImageTyped`).

*All is listed.*  That intervals are disjoint and in the order of their sections makes the sections disjoint
too, which is what `print` takes for granted (`LaidOutPrintable`).  What is warned about starts in a block that
is printed (`Covered`).  The two are then in one interval, and there on one byte; bytes are named by the
place they were loaded at, so by `ItemsIntact` the two blocks overlapped when they were loaded.

*Sections.*  `Own`: an interval that is still there has its section and its items where
they were, since a merge removes the interval whose items it moves.  So if every interval was loaded with
a block at its start, sections start with a block and at different addresses
(`SectionsStartApart`), and `InOwnSection` applies.  It says that bytes go to a section that contains their address;
`ItemsIntact` says that the section they were loaded in does, and there is only one (`OneContainer`), as
nothing is assembled for a block without bytes (`NoneEmpty`).

*Falling through.*  `SoleBlockAdjoins` is about one merge; here an interval may be merged with many, in any order.
`Chained`: an interval that took another one in has no merge to come, since the scan goes on at it until
nothing can be merged; so one that takes another in holds its own blocks only, and its only code block
is the one the edge leaves from (`MergeAdjoins`).  Ranks are what excludes a circle: the code that an interval
starts with has the lowest rank of those merged there, so that the target's interval cannot have been merged the other way round
(`MergeAscends`).  In the listing nothing else starts where the source ends, so its target is
the next block that is printed (`GoesOn`), and no section starts there, so that no header
is printed between the two (`BehindHasNoHeader`).

**Symbols.**  A label alone does not tell how its text came about, so `LabelsUnique`
is strengthened to an invariant that each label is a function's name or a
symbol's label at its address.  Two equal texts are then either both generated,
and at one address by `GeneratedAssumption`, or both names of a symbol; a name
that is printed as such belongs to one symbol only, which has one address.
The same argument holds between a label and a reference: `RefShown` says that a reference
has a name of its symbol or the text generated from its address.
`RefersToLabel` is the other half.  `RefMatches` says that the text is the very one that
`printSymbolDefinition` would print, or that the reference is one of the forwarded ones
the property leaves out; `AllDefined` says that at an address whose labels have been printed
all of its symbols have theirs.

**Operands** takes only steps of `SymbolNames`, since the symbol it refers to is always one of
an operand of the instruction at hand (`SymbolicInMeans`), and this one is of the
module (`OfModule`).  Its type invariant has to follow the sequences that
`fixupInstruction` builds by taking away, adding and reversing operands (`IsSequence`).

*Reading back.*  The invariant is `Texts`: each text was printed for its operand, with the value `ShownFor` it, which is a
number or a reference that `printSymbolReference` may make.  The rest is about one operand at a time.  `FixedMeans`: for an
instruction that is `Expressible` the fix-ups undo what capstone adds and turns round, so that in the
place of an operand (`Place`) is one like it (`Alike`).  `SymbolicMeans`: the look-up by offset finds that operand's
expression and no other's.  So the value that is printed is the one it has (`ValueMeans`), with
the prefix and the ending that belong there (`PrefixMeans`, `EndingMeans`).  `IntelReads`, `AttReads` and `ArmReads` then go through the
three syntaxes.  AArch64's raw operands are cut out of one string: `RawMeans` says that the commas
outside of brackets are just those between two operands.

**Binary printer.**  `Tracked`: a file of a process is that of an element of its `tempFiles` that is
yet to be destroyed; so no element left means no file left, and this holds whether or not `mkstemps`
works.  As long as it does (`MkstempsWorked`), the converse holds too, `Owned`: such an element
has a file of this process, and no two of them have the same.  Then a step of another process, which
draws a name that does not exist or touches its own elements' files, is harmless, and `Listed`: what was printed
stays as it is until the compiler has it.

**Library search.**  `EndOf` follows as many links as there are paths.  By the pigeonhole principle a chain that is still
at a link then has been at one path twice and never ends (`CycleGoesOn`), so a search that arrives at a file is
one that `EndOf` ends at as well (`HopLeads`).  `AsExpected`: what the loops have added is `Expected` of each library so far, and
no earlier search path leads to a file.  The arguments are flattened sequences, so the lemmas say where an element of
a flattened sequence comes from and goes to (`Joins`, `Parts`).  In `SamePaths` each directory of a module becomes two arguments,
of which the first one matters (`HalfOf`).

**Driver.**  Most properties are about the end of a run, so each has an invariant that
relates the state of the loops to what was done so far: `Untouched` (no file is there before the first is
printed or saved), `LaidOut` and `Written` (the modules in front of `i` are done, or their files could not
be opened), `Chosen` (what `pp` was told) and `Refused` (what an error status means).  For the registry
`Defaults` and `NoNull` hold after any set of registrations, hence in any order.

**Induction** over data is needed in four places: for sums over sets, for the recursive function that
collects the CFI directives of an instruction (`OpsAtSteps`), for chains of links, and for flattened sequences, of
arguments and of the words of operands.
The library's induction theorems are about predicates, which the provers cannot instantiate, so the lemmas
`SubsetInduction`, `InductionInSets` and `InductionUpTo` state induction about sets instead: of sets, and of numbers.

**Corrections** to the models that came out of proof attempts.  `Headed` could
choose differently among sections of one address each time, where `findSectionsAt`
is deterministic: hence `found`.  `FallsThrough` was about edges from the end of an interval to the
start of another only, which was not needed.  `PlaceKept` compared
lengths of blocks only, which a `nop` of another size can satisfy by accident: hence
`Whole`, and the modules with such a `nop` that TLC now prints.  An empty data block that shares
its address with a symbolic one was a case no run had: hence `EmptyTakesNothing`.
A section without intervals had to have an address to be well-formed, though the image
of a module can have such a section: hence `NoBase`.  `LoadedSection` was about modules that
were laid out only, which the proof made no use of.  And `RawWords` counted brackets, where `printOpRawValue`
only knows whether it is between two: hence `InBlock`.  `Lookup` and `TypeRead` had cases that overlapped, of
which the provers may assume any: now each case excludes those before it.

### 4.3 What is only model-checked

The liveness properties (`Terminates`), which are beyond the prover.

## 5. Not modelled

Mnemonics, the operands of CFI directives, the text of comments, and the order and
punctuation of the parts of an operand; the escapes in strings; `setFormat`, which nobody calls; the
parsing of command lines; protobuf, capstone, the file system and the compiler;
`string_utils.cpp`, build files and packaging.

## 6. Plan

In this order:

1. The escapes that `printString` writes, which an assembler must read as the bytes they stand for.
