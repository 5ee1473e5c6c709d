------------------------------ MODULE IniFile ------------------------------
(***************************************************************************)
(* The reader of .ini files: the flex scanner (inifile.c), the bison       *)
(* parser (inifileparser.c), the loop of if_parse_inifile that drives it   *)
(* and the tree of files, sections and elements it fills (ifile.c).        *)
(*                                                                         *)
(* A file is a sequence of lines and a line a sequence of lexemes; blanks, *)
(* line ends and comments, which the scanner drops, are left out.  The     *)
(* tree is a partial function from section names to partial functions      *)
(* from element names to values.                                           *)
(*                                                                         *)
(* What makes the reader hard to test is the state that outlives a call:   *)
(* the start condition of the scanner, the characters it has read ahead,   *)
(* the end-of-file flag of the stream, and the tree, which keeps the first *)
(* of two nodes of one name.                                               *)
(***************************************************************************)
EXTENDS Naturals, Sequences, SequencesExt, Functions

CONSTANTS
    Paths,      \* the paths files are read from
    IniTexts,   \* the contents a file may have: sequences of lines
    CHUNK,      \* YY_READ_BUF_SIZE, counted in lexemes
    MaxFiles    \* bound: calls of if_parse_inifile

\* A lexeme: its kind and its text.
Words   == {"word", "letter", "num"}
Lexemes == [k : {"[", "]", "="} \cup Words, t : STRING]

ASSUME IniAssumption ==
    /\ CHUNK \in Nat \ {0} /\ MaxFiles \in Nat
    /\ IniTexts \subseteq Seq(Seq(Lexemes))

VARIABLES
    fphase,     \* "idle", "loop" (the test of feof) or "parse" (in yyparse)
    start,      \* the start condition of the scanner
    ahead,      \* what the scanner has read and not yet matched
    stream,     \* what is left in the open file
    feof,       \* the end-of-file flag of the stream
    pstate,     \* where the parser stands in a section
    files,      \* the file nodes, in the order they were made
    linked,     \* the file nodes in the tree of inifilerootp
    section,    \* the name of current_sectionp
    nodep,      \* the element being read
    erred,      \* history: whether yyerror was called
    wrote       \* history: the contents of each file node's file

fvars == <<fphase, start, ahead, stream, feof, pstate, files, linked,
           section, nodep, erred, wrote>>

NoElement == [name |-> "", value |-> ""]

\* yy_flush_buffer: what a new buffer holds, and one restarted at the end of a
\* stream.
EmptyBuffer == <<>>

IniInit ==
    /\ fphase = "idle" /\ start = "INITIAL" /\ ahead = EmptyBuffer /\ stream = <<>>
    /\ feof = FALSE /\ pstate = "start" /\ files = <<>> /\ linked = {}
    /\ section = "" /\ nodep = NoElement /\ erred = FALSE /\ wrote = <<>>

----------------------------------------------------------------------------
(* The scanner.                                                            *)

\* The rule a lexeme matches in a start condition, by its case label.  Of the
\* rules that match the same text the first in the file is taken, so between
\* brackets even a number is the name of a section.
RuleOf(s, x) ==
    CASE x.k = "["                              -> 3
      [] x.k = "]"                              -> IF s = "SLSECTION" THEN 6 ELSE 14
      [] x.k = "="                              -> 12
      [] x.k \in Words /\ s = "SLSECTION"       -> 2
      [] x.k = "num" /\ s # "SLSECTION"         -> 7
      [] x.k = "word" /\ s = "SLASSIGNMENT"     -> 9
      [] OTHER                                  -> 11

\* The token the action of the rule returns, "" when it returns none.
TokenOf(s, x) ==
    LET r == RuleOf(s, x)
    IN CASE r = 2 -> "SECTION_DECL" [] r = 7 -> "NUMBER" [] r = 9 -> "IDENTIFIER"
         [] r = 11 -> "STRING" [] r = 12 -> "=" [] OTHER -> ""

\* The start condition after the action's BEGIN.
StartAfter(s, x) ==
    LET r == RuleOf(s, x)
    IN CASE r = 3 -> "SLSECTION" [] r \in {6, 7, 11} -> "SLASSIGNMENT"
         [] r = 9 -> "INITIAL" [] OTHER -> s

(* Faulty: a short fread does not set the flag. *)
yy_get_next_buffer_NoEof ==
    LET n == IF Len(stream) < CHUNK THEN Len(stream) ELSE CHUNK
    IN /\ ahead' = SubSeq(stream, 1, n)
       /\ stream' = SubSeq(stream, n + 1, Len(stream))
       /\ UNCHANGED feof

\* yy_get_next_buffer: one fread of at most CHUNK; the flag of the stream is
\* set as soon as fread comes back short.
yy_get_next_buffer ==
    LET n == IF Len(stream) < CHUNK THEN Len(stream) ELSE CHUNK
    IN /\ ahead' = SubSeq(stream, 1, n)
       /\ stream' = SubSeq(stream, n + 1, Len(stream))
       /\ feof' = (feof \/ n < CHUNK)

----------------------------------------------------------------------------
(* The tree.                                                               *)

\* if_new_inifile.
if_new_inifile(path) == [path |-> path, sections |-> [s \in {} |-> {}]]

\* if_add_inifile: bt_add leaves the tree as it is when the name is there.
if_add_inifile(path, i) ==
    linked' = IF \E j \in linked : files[j].path = path
              THEN linked ELSE linked \cup {i}

\* bt_add of a node named n that holds v in a tree t: the first one stays.
AddNode(t, n, v) ==
    IF n \in DOMAIN t THEN t
    ELSE [m \in DOMAIN t \cup {n} |-> IF m = n THEN v ELSE t[m]]

\* if_add_section_node: an empty section, unless there is one of that name.
if_add_section_node(node, name) ==
    [node EXCEPT !.sections = AddNode(@, name, [e \in {} |-> ""])]

(* Faulty: a second assignment to a name replaces the first. *)
if_add_element_Last(node, sname, e) ==
    IF sname \notin DOMAIN node.sections THEN node
    ELSE [node EXCEPT !.sections[sname] =
             [m \in DOMAIN @ \cup {e.name} |-> IF m = e.name THEN e.value ELSE @[m]]]

\* if_add_element: into the section of that name, wherever it was declared.
if_add_element(node, sname, e) ==
    IF sname \notin DOMAIN node.sections THEN node
    ELSE [node EXCEPT !.sections[sname] = AddNode(@, e.name, e.value)]

\* if_get_element: the value of an element, {} when there is none.
if_get_element(node, sname, ename) ==
    IF sname \in DOMAIN node.sections /\ ename \in DOMAIN node.sections[sname]
    THEN {node.sections[sname][ename]} ELSE {}

----------------------------------------------------------------------------
(* The parser.                                                             *)

\* What the parser can shift in each state (yypact, yytable, yycheck).
Shifts(p, tok) ==
    \/ p \in {"start", "section"} /\ tok = "SECTION_DECL"
    \/ p = "section" /\ tok = "IDENTIFIER"
    \/ p = "identifier" /\ tok = "="
    \/ p = "equals" /\ tok \in {"STRING", "NUMBER"}

\* The shift of a token and the reductions it leads to with their actions:
\* all of them are made by default, before the next token is read.
ShiftReduce(tok, text) ==
    LET cur == Len(files) IN
    \/ /\ tok = "SECTION_DECL"
       /\ section' = text
       /\ files' = [files EXCEPT ![cur] = if_add_section_node(@, text)]
       /\ pstate' = "section" /\ UNCHANGED nodep
    \/ /\ tok = "IDENTIFIER"
       /\ nodep' = [name |-> text, value |-> ""]
       /\ pstate' = "identifier" /\ UNCHANGED <<files, section>>
    \/ tok = "=" /\ pstate' = "equals" /\ UNCHANGED <<files, section, nodep>>
    \/ /\ tok \in {"STRING", "NUMBER"}
       /\ nodep' = [nodep EXCEPT !.value = <<tok, text>>]
       /\ files' = [files EXCEPT ![cur] = if_add_element(@, section, nodep')]
       /\ pstate' = "section" /\ UNCHANGED section

\* The grammar has no error rule: yyparse reports the error, pops all states,
\* drops the token it looked at and returns 1; the caller ignores the result.
SyntaxError ==
    /\ erred' = TRUE
    /\ fphase' = "loop" /\ pstate' = "start"
    /\ UNCHANGED <<files, section, nodep>>

----------------------------------------------------------------------------
(* The steps.                                                              *)

\* if_parse_inifile opens a node for the file and points yyin at the stream.
\* What the scanner had read ahead of the last file stays in its buffer.
OpenIni(path, content) ==
    /\ fphase = "idle" /\ Len(files) < MaxFiles
    /\ files' = Append(files, if_new_inifile(path))
    /\ if_add_inifile(path, Len(files) + 1)
    /\ stream' = FlattenSeq(content) /\ feof' = FALSE
    /\ wrote' = Append(wrote, content)
    /\ fphase' = "loop"
    /\ UNCHANGED <<start, ahead, pstate, section, nodep, erred>>

\* while (!feof(yyin)) yyparse();
DriveLoop ==
    /\ fphase = "loop"
    /\ fphase' = IF feof THEN "idle" ELSE "parse"
    /\ pstate' = "start"
    /\ UNCHANGED <<start, ahead, stream, feof, files, linked, section, nodep,
                   erred, wrote>>

\* The scanner matches a lexeme of its buffer and the parser takes the token.
ScanToken ==
    /\ fphase = "parse" /\ ahead # <<>>
    /\ LET x == Head(ahead)
           tok == TokenOf(start, x)
       IN /\ start' = StartAfter(start, x)
          /\ ahead' = Tail(ahead)
          /\ \/ tok = "" /\ UNCHANGED <<fphase, pstate, files, section, nodep, erred>>
             \/ /\ tok # "" /\ Shifts(pstate, tok)
                /\ ShiftReduce(tok, x.t) /\ UNCHANGED <<fphase, erred>>
             \/ tok # "" /\ ~Shifts(pstate, tok) /\ SyntaxError
    /\ UNCHANGED <<stream, feof, linked, wrote>>

\* The buffer is used up: the scanner reads on.
Refill ==
    /\ fphase = "parse" /\ ahead = EmptyBuffer /\ stream # <<>>
    /\ yy_get_next_buffer
    /\ UNCHANGED <<fphase, start, pstate, files, linked, section, nodep, erred, wrote>>

\* Nothing more to read: the end token accepts behind a section and is an
\* error anywhere else.
ScanEnd ==
    /\ fphase = "parse" /\ ahead = EmptyBuffer /\ stream = <<>>
    /\ yy_get_next_buffer
    /\ \/ /\ pstate = "section"
          /\ fphase' = "loop" /\ pstate' = "start"
          /\ UNCHANGED <<files, section, nodep, erred>>
       \/ pstate # "section" /\ SyntaxError
    /\ UNCHANGED <<start, linked, wrote>>

IniRun == DriveLoop \/ ScanToken \/ Refill \/ ScanEnd

IniNext ==
    \/ \E p \in Paths, c \in IniTexts : OpenIni(p, c)
    \/ IniRun

IniSpec == IniInit /\ [][IniNext]_fvars /\ WF_fvars(IniRun)

----------------------------------------------------------------------------
(* What the reader promises.                                               *)

Header(line) ==
    Len(line) = 3 /\ line[1].k = "[" /\ line[2].k \in Words /\ line[3].k = "]"
Assignment(line) ==
    Len(line) = 3 /\ line[1].k = "word" /\ line[2].k = "=" /\ line[3].k \in Words
Grammatical(c) ==
    /\ c # <<>> /\ Header(c[1])
    /\ \A i \in DOMAIN c : Header(c[i]) \/ Assignment(c[i])

\* The section a line stands in: the last header above it.
SectionAt(c, i) ==
    LET h == CHOOSE h \in 1..i : Header(c[h]) /\ \A g \in h+1..i : ~Header(c[g])
    IN c[h][2].t

\* The lines that assign to a name in a section.
Assigns(c, s, e) ==
    {i \in DOMAIN c : Assignment(c[i]) /\ SectionAt(c, i) = s /\ c[i][1].t = e}

\* The tree as the text of a file defines it: an element holds what the first
\* assignment to it says, however the sections are split up.
Meaning(c) ==
    LET names == {c[i][2].t : i \in {j \in DOMAIN c : Header(c[j])}}
        elements(s) == {c[i][1].t : i \in {j \in DOMAIN c :
                              Assignment(c[j]) /\ SectionAt(c, j) = s}}
        first(A) == CHOOSE i \in A : \A j \in A : i <= j
        value(x) == <<IF x.k = "num" THEN "NUMBER" ELSE "STRING", x.t>>
    IN [s \in names |-> [e \in elements(s) |->
           value(c[first(Assigns(c, s, e))][3])]]

\* As long as every file followed the grammar, no error is reported, the
\* nodes of the tree are the first ones of their paths, and each holds
\* exactly what its file says: the scanner is back in the right start
\* condition after every file, whatever the order and the size of the reads.
\* (A reader that keeps the last of two assignments, or carries a start
\* condition over, breaks this.)
IniInv ==
    (\A i \in DOMAIN wrote : Grammatical(wrote[i])) =>
        /\ ~erred
        /\ linked = {i \in DOMAIN files : \A j \in 1..i-1 : files[j].path # files[i].path}
        /\ fphase = "idle" =>
              /\ ahead = <<>>
              /\ \A i \in DOMAIN files : files[i].sections = Meaning(wrote[i])

\* if_parse_inifile always comes back, errors in the file or not: every round
\* of its loop uses up a token or reaches the end of the stream.
ParseReturns == fphase # "idle" ~> fphase = "idle"

\* What ifile.c says: a settings tree takes in "additional secctions and
\* name/value pairs from multiple .ini files", each under the node of its
\* file.  Violated: a syntax error ends the loop of if_parse_inifile with the
\* rest of the file in the buffer of the scanner, and the next file's node
\* takes it in.
OwnContent ==
    \A i \in DOMAIN files : \A s \in DOMAIN files[i].sections :
        \E l \in DOMAIN wrote[i] : \E j \in DOMAIN wrote[i][l] : wrote[i][l][j].t = s
=============================================================================
