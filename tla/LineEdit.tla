------------------------------ MODULE LineEdit ------------------------------
(***************************************************************************)
(* The line editor that scripts patch files with (EditProgram in           *)
(* konfigkoll_utils/src/line_edit.rs, LineEditor in plugins/patch.rs): an  *)
(* interpreter of small programs, in the manner of sed.  A program runs    *)
(* once per line, may call another program on the same pattern space, may  *)
(* fetch the next line in its midst, and has a last turn at the end of the *)
(* file.                                                                   *)
(*                                                                         *)
(* A line is a sequence of words and a text a sequence of lines, so that   *)
(* push_str is a concatenation.  A text always ends in a line end; the     *)
(* pattern space is a string, kept as its parts between line ends: the     *)
(* empty string is <<Blank>>.  A regex finds one word.                     *)
(***************************************************************************)
EXTENDS Naturals, SequencesExt

CONSTANTS
    Word,           \* what lines are made of
    ProgramId,      \* the programs, numbered: a program calls higher numbers only
    Libraries,      \* the sets of programs considered: a sequence of functions of ProgramId
    Inputs          \* the texts that are edited

Blank == <<>>       \* an empty line

Line == Seq(Word)

ValueKinds == {"InsertBefore", "InsertAfter", "Replace", "RegexReplace", "Function"}

PlainKinds == {"Print", "Delete", "NextLine", "Stop", "StopAndPrint"}

SelectorKinds == {"All", "Eof", "Line", "Range", "Regex", "Function"}

\* Subprogram(Rc) holds a program that was finished before it was added, so
\* that calls are never circular.
ASSUME LineEditAssumption ==
    /\ ProgramId \subseteq Nat
    /\ 1 \in ProgramId
    /\ \A k \in DOMAIN Libraries : \A id \in ProgramId :
         LET instructions == Libraries[k][id].instructions IN
           /\ instructions \in Seq(ToSet(instructions))
           /\ \A instr \in ToSet(instructions) :
                LET a == instr.action IN
                  /\ instr.selector.kind \in SelectorKinds
                  /\ a.kind \in ValueKinds \cup PlainKinds \cup {"Subprogram"}
                  /\ a.kind \in {"InsertBefore", "InsertAfter", "Replace"} => a.text \in Line
                  /\ a.kind = "RegexReplace" => a.by \in Word
                  /\ a.kind = "Function" => a.fails \/ a.text \in Line
                  /\ a.kind = "Subprogram" => a.sub \in ProgramId /\ a.sub > id
    /\ Inputs \subseteq Seq(Line)

VARIABLES
    lib,            \* which programs are used; program 1 is the one that is applied
    input,          \* the text
    mode,           \* "lines", "eof", "done" or "panicked"
    line_number,    \* the lines taken from the input so far
    pattern_space,
    output,
    frames          \* execute_program: program, next instruction and `line`

editVars == <<lib, input, mode, line_number, pattern_space, output, frames>>

EmptySpace == <<Blank>>

Top == frames[Len(frames)]

Program == Libraries[lib][Top.program]

Instruction == Program.instructions[Top.pc]

-----------------------------------------------------------------------------
(* Selectors and actions *)

\* Selector::matches, for a line; a custom function that fails selects nothing.
Selected(s, n, line) ==
    \/ s.kind = "All"
    \/ s.kind = "Line" /\ n = s.from
    \/ s.kind = "Range" /\ n \in s.from .. s.to
    \/ s.kind = "Regex" /\ \E i \in DOMAIN line : line[i] = s.word
    \/ s.kind = "Function" /\ n \in s.numbers

Matches(instr, n, line) ==
    IF instr.selector_invert THEN ~Selected(instr.selector, n, line)
                             ELSE Selected(instr.selector, n, line)

\* String::push_str of a line's text.
PushStr(space, line) == [space EXCEPT ![Len(space)] = @ \o line]

FirstAt(line, word) == CHOOSE i \in DOMAIN line : /\ line[i] = word
                                                  /\ \A j \in 1..(i - 1) : line[j] # word

\* Regex::replace and replace_all.
Replaced(space, a) ==
    LET Has(i)  == \E j \in DOMAIN space[i] : space[i][j] = a.word
        first   == CHOOSE i \in DOMAIN space : Has(i) /\ \A k \in 1..(i - 1) : ~Has(k)
    IN  IF a.replace_all
        THEN [i \in DOMAIN space |-> [j \in DOMAIN space[i] |->
                 IF space[i][j] = a.word THEN a.by ELSE space[i][j]]]
        ELSE IF \E i \in DOMAIN space : Has(i)
             THEN [space EXCEPT ![first][FirstAt(space[first], a.word)] = a.by]
             ELSE space

\* Action::apply, the actions that change the pattern space and nothing else.
Edited(a, space) ==
    CASE a.kind = "InsertBefore" -> <<a.text>> \o space
      [] a.kind = "InsertAfter"  -> space \o <<a.text>>
      [] a.kind = "Replace"      -> <<a.text>>
      [] a.kind = "RegexReplace" -> Replaced(space, a)
      [] a.kind = "Function"     -> IF a.fails THEN space ELSE <<a.text>>

\* Printing appends the string and a line end.
Printed(out, space) == out \o space

-----------------------------------------------------------------------------
(* EditProgram::apply *)

EditInit ==
    /\ lib \in DOMAIN Libraries
    /\ input \in Inputs
    /\ mode = "lines"
    /\ line_number = 0
    /\ pattern_space = EmptySpace
    /\ output = <<>>
    /\ frames = <<>>

\* The head of the loop.
LoadLine ==
    /\ mode = "lines"
    /\ frames = <<>>
    /\ line_number < Len(input)
    /\ line_number' = line_number + 1
    /\ pattern_space' = PushStr(pattern_space, input[line_number'])
    /\ frames' = <<[program |-> 1, pc |-> 1, line |-> input[line_number']]>>
    /\ UNCHANGED <<lib, input, mode, output>>

Running(kinds) ==
    /\ mode = "lines"
    /\ frames # <<>>
    /\ Top.pc <= Len(Program.instructions)
    /\ Matches(Instruction, line_number, Top.line)
    /\ Instruction.action.kind \in kinds

\* The current frame with its next instruction, and `line` as it is then.
Advance(line) ==
    [frames EXCEPT ![Len(frames)] = [program |-> Top.program, pc |-> Top.pc + 1, line |-> line]]

SkipInstruction ==
    /\ mode = "lines"
    /\ frames # <<>>
    /\ Top.pc <= Len(Program.instructions)
    /\ ~Matches(Instruction, line_number, Top.line)
    /\ frames' = Advance(Top.line)
    /\ UNCHANGED <<lib, input, mode, line_number, pattern_space, output>>

ExecPrint ==
    /\ Running({"Print"})
    /\ output' = Printed(output, pattern_space)
    /\ frames' = Advance(Top.line)
    /\ UNCHANGED <<lib, input, mode, line_number, pattern_space>>

ExecEdit ==
    /\ Running(ValueKinds)
    /\ pattern_space' = Edited(Instruction.action, pattern_space)
    /\ frames' = Advance(Top.line)
    /\ UNCHANGED <<lib, input, mode, line_number, output>>

\* A mutant: the pattern space is left as it is.
KeptSpace(space) == space

\* Every program that is running is left, and the line is not printed.
DeletedSpace(space) == EmptySpace

ExecDelete ==
    /\ Running({"Delete"})
    /\ pattern_space' = DeletedSpace(pattern_space)
    /\ frames' = <<>>
    /\ UNCHANGED <<lib, input, mode, line_number, output>>

\* A mutant: the last line is waited for.
ExecNextLineWaiting ==
    /\ Running({"NextLine"})
    /\ output' = IF Program.print_default THEN Printed(output, pattern_space) ELSE output
    /\ IF line_number < Len(input)
       THEN /\ line_number' = line_number + 1
            /\ pattern_space' = <<input[line_number']>>
            /\ frames' = Advance(input[line_number'])
       ELSE FALSE
    /\ UNCHANGED <<lib, input, mode>>

\* advance_line: the running program's own print_default decides, and only its
\* own `line` follows.  After the last line the program goes on with nothing.
ExecNextLine ==
    /\ Running({"NextLine"})
    /\ output' = IF Program.print_default THEN Printed(output, pattern_space) ELSE output
    /\ IF line_number < Len(input)
       THEN /\ line_number' = line_number + 1
            /\ pattern_space' = <<input[line_number']>>
            /\ frames' = Advance(input[line_number'])
       ELSE /\ pattern_space' = EmptySpace
            /\ frames' = Advance(Top.line)
            /\ UNCHANGED line_number
    /\ UNCHANGED <<lib, input, mode>>

\* pattern_space is cleared once the loop is left.
ExecStop ==
    /\ Running({"Stop"})
    /\ mode' = "eof"
    /\ pattern_space' = EmptySpace
    /\ frames' = <<[program |-> 1, pc |-> 1, line |-> Blank]>>
    /\ UNCHANGED <<lib, input, line_number, output>>

\* A mutant: the first of the remaining lines is left out.
RestButOne(out, space, n) == Printed(out, space) \o SubSeq(input, n + 2, Len(input))

\* print_rest_of_input.
Rest(out, space, n) == Printed(out, space) \o SubSeq(input, n + 1, Len(input))

ExecStopAndPrint ==
    /\ Running({"StopAndPrint"})
    /\ output' = Rest(output, pattern_space, line_number)
    /\ line_number' = Len(input)
    /\ mode' = "eof"
    /\ pattern_space' = EmptySpace
    /\ frames' = <<[program |-> 1, pc |-> 1, line |-> Blank]>>
    /\ UNCHANGED <<lib, input>>

\* The called program gets a copy of `line`.
ExecSubprogram ==
    /\ Running({"Subprogram"})
    /\ frames' = Append(Advance(Top.line),
                        [program |-> Instruction.action.sub, pc |-> 1, line |-> Top.line])
    /\ UNCHANGED <<lib, input, mode, line_number, pattern_space, output>>

ReturnToCaller ==
    /\ mode = "lines"
    /\ Len(frames) > 1
    /\ Top.pc > Len(Program.instructions)
    /\ frames' = Front(frames)
    /\ UNCHANGED <<lib, input, mode, line_number, pattern_space, output>>

\* The end of the loop's body.
EndOfLine ==
    /\ mode = "lines"
    /\ Len(frames) = 1
    /\ Top.pc > Len(Program.instructions)
    /\ output' = IF Program.print_default THEN Printed(output, pattern_space) ELSE output
    /\ pattern_space' = EmptySpace
    /\ frames' = <<>>
    /\ UNCHANGED <<lib, input, mode, line_number>>

EndOfInput ==
    /\ mode = "lines"
    /\ frames = <<>>
    /\ line_number = Len(input)
    /\ mode' = "eof"
    /\ pattern_space' = EmptySpace
    /\ frames' = <<[program |-> 1, pc |-> 1, line |-> Blank]>>
    /\ UNCHANGED <<lib, input, line_number, output>>
-----------------------------------------------------------------------------
(* The end of the file *)

\* Whether a selector is Eof is all that counts, inverted or not.
AtEof(instr) == instr.selector.kind = "Eof"

EofSkip ==
    /\ mode = "eof"
    /\ Top.pc <= Len(Program.instructions)
    /\ \/ ~AtEof(Instruction)
       \/ Instruction.action.kind = "NextLine"      \* an error is logged
    /\ frames' = Advance(Blank)
    /\ UNCHANGED <<lib, input, mode, line_number, pattern_space, output>>

EofRunning(kinds) ==
    /\ mode = "eof"
    /\ Top.pc <= Len(Program.instructions)
    /\ AtEof(Instruction)
    /\ Instruction.action.kind \in kinds

EofEdit ==
    /\ EofRunning(ValueKinds \cup {"Print"})
    /\ IF Instruction.action.kind = "Print"
       THEN output' = Printed(output, pattern_space) /\ UNCHANGED pattern_space
       ELSE pattern_space' = Edited(Instruction.action, pattern_space) /\ UNCHANGED output
    /\ frames' = Advance(Blank)
    /\ UNCHANGED <<lib, input, mode, line_number>>

\* What is left in the pattern space, without a line end in front and with one
\* at its end.
LastWords(space) ==
    LET stripped == IF Len(space) > 1 /\ space[1] = Blank THEN Tail(space) ELSE space
    IN  CASE space = EmptySpace -> <<>>
          [] space # EmptySpace /\ Len(stripped) > 1 /\ Last(stripped) = Blank -> Front(stripped)
          [] OTHER -> stripped

Finish(out, space) ==
    /\ output' = out \o LastWords(space)
    /\ pattern_space' = space
    /\ mode' = "done"
    /\ frames' = <<>>

EofDelete ==
    /\ EofRunning({"Delete"})
    /\ Finish(output, DeletedSpace(pattern_space))
    /\ UNCHANGED <<lib, input, line_number>>

EofStop ==
    /\ EofRunning({"Stop"})
    /\ Finish(output, pattern_space)
    /\ UNCHANGED <<lib, input, line_number>>

\* What the main loop did not read, when it was stopped, is printed after all.
EofStopAndPrint ==
    /\ EofRunning({"StopAndPrint"})
    /\ line_number' = Len(input)
    /\ Finish(Rest(output, pattern_space, line_number), EmptySpace)
    /\ UNCHANGED <<lib, input>>

\* todo!()
EofPanic ==
    /\ EofRunning({"Subprogram"})
    /\ mode' = "panicked"
    /\ UNCHANGED <<lib, input, line_number, pattern_space, output, frames>>

EofEnd ==
    /\ mode = "eof"
    /\ Top.pc > Len(Program.instructions)
    /\ Finish(output, pattern_space)
    /\ UNCHANGED <<lib, input, line_number>>

EditNext ==
    \/ LoadLine \/ SkipInstruction \/ ExecPrint \/ ExecEdit \/ ExecDelete \/ ExecNextLine
    \/ ExecStop \/ ExecStopAndPrint \/ ExecSubprogram \/ ReturnToCaller \/ EndOfLine
    \/ EndOfInput \/ EofSkip \/ EofEdit \/ EofDelete \/ EofStop \/ EofStopAndPrint
    \/ EofPanic \/ EofEnd

EditDone == mode \in {"done", "panicked"}

\* The interpreter is a loop of one thread.
EditSpec == EditInit /\ [][EditNext]_editVars /\ WF_editVars(EditNext)
-----------------------------------------------------------------------------
(* Properties *)

EditTypeOK ==
    /\ input \in Inputs \cup {<<>>}
    /\ mode \in {"lines", "eof", "done", "panicked"}
    /\ line_number \in 0 .. Len(input)
    /\ pattern_space \in Seq(Line) \ {<<>>}
    /\ output \in Seq(Line)
    /\ frames \in Seq([program : ProgramId, pc : Nat \ {0}, line : Line])

KindsOf(ids) == UNION {{Libraries[lib][id].instructions[i].action.kind : i \in DOMAIN Libraries[lib][id].instructions} : id \in ids}

(* What the documentation of EditProgram promises, said without a machine,  *)
(* for a program that neither fetches lines nor calls another: each line is *)
(* a matter of its own, up to the one that stops the program.               *)

Ends(p, text, n) ==
    {i \in DOMAIN p.instructions :
        /\ p.instructions[i].action.kind \in {"Delete", "Stop", "StopAndPrint"}
        /\ Matches(p.instructions[i], n, text[n])}

\* The last instruction that is run for line n.
LastRun(p, text, n) ==
    IF Ends(p, text, n) = {} THEN Len(p.instructions) ELSE Min(Ends(p, text, n))

EndKind(p, text, n) ==
    IF Ends(p, text, n) = {} THEN "None" ELSE p.instructions[LastRun(p, text, n)].action.kind

\* The pattern space after the first k instructions.
SpaceAfter(p, text, n) ==
    LET Space[k \in 0 .. Len(p.instructions)] ==
            IF k = 0 THEN <<text[n]>>
            ELSE IF /\ p.instructions[k].action.kind \in ValueKinds
                    /\ Matches(p.instructions[k], n, text[n])
            THEN Edited(p.instructions[k].action, Space[k - 1])
            ELSE Space[k - 1]
    IN  Space

\* What instruction i prints.
PrintedAt(p, text, n, i) ==
    IF p.instructions[i].action.kind = "Print" /\ Matches(p.instructions[i], n, text[n])
    THEN SpaceAfter(p, text, n)[i - 1] ELSE <<>>

OfLine(p, text, n) ==
    LET last == LastRun(p, text, n)
        end  == EndKind(p, text, n)
    IN  FlattenSeq([i \in 1 .. last |-> PrintedAt(p, text, n, i)]) \o
        CASE end = "None" /\ p.print_default -> SpaceAfter(p, text, n)[last]
          [] end = "StopAndPrint" -> SpaceAfter(p, text, n)[last] \o SubSeq(text, n + 1, Len(text))
          [] OTHER -> <<>>

StopsAt(p, text) == {n \in DOMAIN text : EndKind(p, text, n) \in {"Stop", "StopAndPrint"}}

OfText(p, text) ==
    LET last == IF StopsAt(p, text) = {} THEN Len(text) ELSE Min(StopsAt(p, text))
    IN  FlattenSeq([n \in 1 .. last |-> OfLine(p, text, n)])

\* A program that neither fetches lines nor calls another, and does nothing at the end.
IsSimple(p) ==
    \A i \in DOMAIN p.instructions : /\ p.instructions[i].action.kind \notin {"NextLine", "Subprogram"}
                                     /\ p.instructions[i].selector.kind # "Eof"

\* The editor does what its documentation says of a program: the lines are edited
\* independently of each other, whichever way the lines before them were left
\* (Delete leaves the loop where the pattern space is not cleared).
AgreesWithReference ==
    LET p == Libraries[lib][1] IN mode = "done" /\ IsSimple(p) => output = OfText(p, input)

\* s is part of t, in order.
Subsequence(s, t) ==
    \E f \in [DOMAIN s -> DOMAIN t] :
        /\ \A i, j \in DOMAIN s : i < j => f[i] < f[j]
        /\ \A i \in DOMAIN s : s[i] = t[f[i]]

\* Programs that only insert, print, fetch lines, stop with the rest printed and
\* call each other lose no line of the text, at whatever line they fetch the next
\* or stop, in whichever program.  Those that only move through the text copy it, but
\* for empty lines at its end: NextLine on the last line leaves an empty pattern
\* space, which is printed.
LinesKept ==
    mode = "done" /\ (\A id \in ProgramId : Libraries[lib][id].print_default) =>
        /\ KindsOf(ProgramId) \subseteq
              {"InsertBefore", "InsertAfter", "Print", "NextLine", "StopAndPrint", "Subprogram"}
           => Subsequence(input, output)
        /\ KindsOf(ProgramId) \subseteq {"NextLine", "StopAndPrint", "Subprogram"}
           => /\ IsPrefix(input, output)
              /\ \A i \in (Len(input) + 1) .. Len(output) : output[i] = Blank

\* Every program comes to an end on every text, also when it calls others and
\* fetches lines after the last one.
EditingEnds == <>EditDone
=============================================================================
