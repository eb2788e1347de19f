------------------------------ MODULE Strings ------------------------------
(***************************************************************************)
(* The modal lexer (parser/src/lexer.rs) and the strings that the parser   *)
(* makes of its tokens (StringChunks in parser/src/grammar.lalrpop and     *)
(* strip_indent in parser/src/utils.rs).                                   *)
(*                                                                         *)
(* The lexer is in one of three modes and stacks the modes it has to come  *)
(* back to: a string may hold interpolated expressions, which may hold     *)
(* braces and strings again.  The text is a sequence of characters; of the *)
(* tokens of an expression only those that change the mode are told apart, *)
(* and an interpolated expression is opaque.                               *)
(***************************************************************************)
EXTENDS Integers, Sequences, SequencesExt

CONSTANT Texts \* the source texts to lex, in families

VARIABLES
  text,     \* the source
  at,       \* where the underlying lexer is in it
  lexer,    \* the current mode: its brace count or number of percent signs
  modes,    \* the stack of modes to come back to
  buffer,   \* an interpolation token held back: its length, or 0
  open,     \* the chunks of the strings being read, the innermost last
  strings,  \* the strings read
  status    \* "lexing", "end", "error" or "panic"

svars == <<text, at, lexer, modes, buffer, open, strings, status>>

Blanks  == {" ", "\n"}
Letters == {"a", "m"}
Marks   == {"\"", "%"}
Escapes == {"\"", "%", "\\"} \* the characters that may be escaped

Normal(braces)    == [mode |-> "Normal", n |-> braces]
StringMode        == [mode |-> "String", n |-> 0]
MultiString(size) == [mode |-> "MultiString", n |-> size]

SInit ==
  /\ \E family \in Texts : text \in family
  /\ at = 1
  /\ lexer = Normal(0) /\ modes = <<>> /\ buffer = 0
  /\ open = <<>> /\ strings = <<>> /\ status = "lexing"

----------------------------------------------------------------------------
(***************************************************************************)
(* The underlying lexers: the longest match at a place.                    *)
(***************************************************************************)
Char(i) == IF i \in DOMAIN text THEN text[i] ELSE "end"

\* How many characters from i on are in S.
Run(i, S) ==
  (CHOOSE j \in i .. Len(text) + 1 : Char(j) \notin S /\ \A k \in i .. j - 1 : Char(k) \in S) - i
RunOutside(i, S) == Run(i, Range(text) \ S)

Token(t, len) == [t |-> t, len |-> len]

normal_token(i) ==
  LET c == Char(i)
      percents == Run(i + 1, {"%"})
  IN  CASE c = "m" /\ percents > 0 /\ Char(i + 1 + percents) = "\"" ->
             Token("MultiStringStart", percents + 2)
        [] c = "\"" -> Token("DoubleQuote", 1)
        [] c = "{" -> Token("LBrace", 1)
        [] c = "}" -> Token("RBrace", 1)
        [] c = "#" -> Token("LineComment", RunOutside(i, {"\n"}))
        [] c = "\\" -> Token("Error", 1)
        [] c = "%" -> Token("Other", 1)
        [] OTHER -> Token("Other", Run(i, Letters))

string_token(i) ==
  LET c == Char(i)
  IN  CASE c = "\"" -> Token("DoubleQuote", 1)
        [] c = "%" /\ Char(i + 1) = "{" -> Token("Interpolation", 2)
        [] c = "%" /\ Char(i + 1) # "{" -> Token("Literal", 1)
        [] c = "\\" -> IF Char(i + 1) \in Escapes THEN Token("EscapedChar", 2) ELSE Token("Error", 1)
        [] OTHER -> Token("Literal", RunOutside(i, {"\"", "%", "\\"}))

multistr_token(i) ==
  LET c == Char(i)
      first == IF c = "\"" THEN 1 ELSE 0
      percents == Run(i + first, {"%"})
      brace == percents > 0 /\ Char(i + first + percents) = "{"
      len == first + percents
  IN  CASE c \notin Marks -> Token("Literal", RunOutside(i, Marks))
        [] c = "%" /\ brace -> Token("CandidateInterpolation", len + 1)
        [] c = "\"" /\ brace -> Token("QuotesCandidateInterpolation", len + 1)
        [] c = "\"" /\ percents > 0 /\ ~brace -> Token("CandidateEnd", len)
        [] OTHER -> Token("Literal", len)

----------------------------------------------------------------------------
(***************************************************************************)
(* Strings: literals and expressions.  Consecutive literals are one chunk. *)
(***************************************************************************)
Literal(s) == [k |-> "Literal", s |-> s, indent |-> 0]
Expr       == [k |-> "Expr", s |-> <<>>, indent |-> 0]

Fused(chunks, s) ==
  IF chunks # <<>> /\ Last(chunks).k = "Literal"
  THEN [chunks EXCEPT ![Len(chunks)].s = @ \o s]
  ELSE Append(chunks, Literal(s))

NoIndent == 1000 \* usize::MAX: no line has anything but blanks

\* One character, for the indentation: blanks count at the start of a line.
count_char(c, st) ==
  CASE c = "\n" -> [st EXCEPT !.current = 0, !.start_line = TRUE]
    [] c = " " /\ st.start_line -> [st EXCEPT !.current = @ + 1]
    [] c # " " /\ c # "\n" /\ st.start_line ->
         [st EXCEPT !.start_line = FALSE, !.min = IF st.current < @ THEN st.current ELSE @]
    [] OTHER -> st

min_indent(chunks) ==
  LET expr(st) == count_char("a", st)
      in(st, chunk) == IF chunk.k = "Expr" THEN expr(st)
                       ELSE FoldLeft(LAMBDA s, c : count_char(c, s), st, chunk.s)
  IN  FoldLeft(in, [min |-> NoIndent, current |-> 0, start_line |-> TRUE], chunks).min

\* One character of a literal: up to min blanks go at the start of a line.
strip_char(c, st, min) ==
  CASE c = " " /\ st.start_line /\ st.current < min -> [st EXCEPT !.current = @ + 1]
    [] c = " " /\ st.start_line /\ st.current >= min ->
         [st EXCEPT !.current = @ + 1, !.buf = Append(@, c)]
    [] c = "\n" -> [st EXCEPT !.current = 0, !.start_line = TRUE, !.expr = 0, !.buf = Append(@, c)]
    [] OTHER -> [st EXCEPT !.start_line = FALSE, !.buf = Append(@, c)]

AllBlank(s) == \A i \in DOMAIN s : s[i] = " "
Newlines(s) == {i \in DOMAIN s : s[i] = "\n"}
DropFirstLine(s) ==
  LET i == Min(Newlines(s)) IN IF AllBlank(SubSeq(s, 1, i - 1)) THEN SubSeq(s, i + 1, Len(s)) ELSE s
DropLastLine(s) ==
  LET i == Max(Newlines(s)) IN IF AllBlank(SubSeq(s, i + 1, Len(s))) THEN SubSeq(s, 1, i - 1) ELSE s

\* One chunk.  The first expression of a line keeps what it is indented by;
\* it is noted, for the case that another one follows on its line.
strip_chunk(st, chunk, i, last, min) ==
  LET r     == FoldLeft(LAMBDA s, c : strip_char(c, s, min), [st EXCEPT !.buf = <<>>], chunk.s)
      first == IF i = 1 /\ Newlines(r.buf) # {} THEN DropFirstLine(r.buf) ELSE r.buf
      s     == IF i = last /\ Newlines(first) # {} THEN DropLastLine(first) ELSE first
  IN  CASE chunk.k = "Literal" -> [r EXCEPT !.out = Append(@, Literal(s))]
        [] chunk.k = "Expr" /\ st.start_line ->
             [st EXCEPT !.start_line = FALSE, !.expr = i,
                        !.out = Append(@, [Expr EXCEPT !.indent = st.current - min])]
        [] OTHER ->
             [st EXCEPT !.expr = 0, !.out = Append(@, Expr),
                        !.unindent = IF st.expr = 0 THEN @ ELSE @ \cup {st.expr}]

strip_indent(chunks) ==
  LET min == min_indent(chunks)
      f[i \in 0 .. Len(chunks)] ==
        IF i = 0 THEN [current |-> 0, start_line |-> TRUE, expr |-> 0, unindent |-> {},
                       buf |-> <<>>, out |-> <<>>]
        ELSE strip_chunk(f[i - 1], chunks[i], i, Len(chunks), min)
      r == f[Len(chunks)]
  IN  [i \in DOMAIN chunks |-> IF i \in r.unindent THEN [r.out[i] EXCEPT !.indent = 0] ELSE r.out[i]]

----------------------------------------------------------------------------
(***************************************************************************)
(* Lexer::next, with what the parser does with the token.                  *)
(***************************************************************************)
Add(s) == open' = [open EXCEPT ![Len(open)] = Fused(@, s)]
Begin  == open' = Append(open, <<>>)
Finish(chunks) == strings' = Append(strings, chunks) /\ open' = Front(open)
Slice(i, len) == SubSeq(text, i, i + len - 1)

Enter(mode) == lexer' = mode /\ modes' = Append(modes, lexer)
\* Back to the last mode, which must be one of the expected ones.
Leave(expected) ==
  IF modes # <<>> /\ Last(modes).mode \in expected
  THEN lexer' = Last(modes) /\ modes' = Front(modes) /\ UNCHANGED status
  ELSE status' = "panic" /\ UNCHANGED <<lexer, modes>>

Fail == status' = "error" /\ UNCHANGED <<lexer, modes, buffer, open, strings>>

leave_normal == Leave({"String", "MultiString"})
leave_str    == Leave({"Normal"})

handle_normal_token(tok) ==
  \/ tok.t = "DoubleQuote" /\ Enter(StringMode) /\ Begin /\ UNCHANGED <<strings, status>>
  \/ tok.t = "MultiStringStart" /\ Enter(MultiString(tok.len - 1)) /\ Begin
     /\ UNCHANGED <<strings, status>>
  \/ tok.t = "LBrace" /\ lexer' = Normal(lexer.n + 1) /\ UNCHANGED <<modes, open, strings, status>>
  \/ tok.t = "RBrace" /\ lexer.n > 0 /\ lexer' = Normal(lexer.n - 1)
     /\ UNCHANGED <<modes, open, strings, status>>
  \/ tok.t = "RBrace" /\ lexer.n = 0 /\ modes # <<>> /\ leave_normal
     /\ open' = [open EXCEPT ![Len(open)] = Append(@, Expr)] /\ UNCHANGED strings
  \/ tok.t \in {"LineComment", "Other"} /\ UNCHANGED <<lexer, modes, open, strings, status>>

NormalNext ==
  /\ status = "lexing" /\ lexer.mode = "Normal"
  /\ LET i == at + Run(at, Blanks)
         tok == normal_token(i)
     IN  IF i > Len(text)
         THEN /\ at' = i /\ status' = IF open = <<>> THEN "end" ELSE "error"
              /\ UNCHANGED <<lexer, modes, buffer, open, strings>>
         ELSE /\ at' = i + tok.len
              /\ IF tok.t = "Error" \/ (tok.t = "RBrace" /\ lexer.n = 0 /\ modes = <<>>) THEN Fail
                 ELSE handle_normal_token(tok) /\ UNCHANGED buffer
  /\ UNCHANGED text

handle_string_token(tok) ==
  \/ tok.t = "DoubleQuote" /\ leave_str /\ Finish(Last(open))
  \/ tok.t = "Interpolation" /\ Enter(Normal(0)) /\ UNCHANGED <<open, strings, status>>
  \/ tok.t = "EscapedChar" /\ Add(Slice(at + 1, 1)) /\ UNCHANGED <<lexer, modes, strings, status>>
  \/ tok.t = "Literal" /\ Add(Slice(at, tok.len)) /\ UNCHANGED <<lexer, modes, strings, status>>

StringNext ==
  /\ status = "lexing" /\ lexer.mode = "String"
  /\ LET tok == string_token(at)
     IN  IF at > Len(text) THEN at' = at /\ Fail
         ELSE at' = at + tok.len
              /\ IF tok.t = "Error" THEN Fail ELSE handle_string_token(tok) /\ UNCHANGED buffer
  /\ UNCHANGED text

\* Plausible bug: the percent signs before an interpolation are dropped.
split_dropping(tok) == Add(<<>>) /\ buffer' = lexer.n

\* A literal of what exceeds the delimiter; the interpolation is held back.
split_candidate_interp(tok) == Add(Slice(at, tok.len - lexer.n)) /\ buffer' = lexer.n

handle_multistr_token(tok) ==
  LET candidate == tok.t \in {"CandidateInterpolation", "QuotesCandidateInterpolation"}
  IN  \/ /\ tok.t = "Interpolation" \/ (tok.t = "CandidateInterpolation" /\ tok.len = lexer.n)
         /\ Enter(Normal(0)) /\ buffer' = 0 /\ UNCHANGED <<open, strings, status>>
      \/ candidate /\ tok.len > lexer.n /\ split_candidate_interp(tok)
         /\ UNCHANGED <<lexer, modes, strings, status>>
      \/ tok.t = "CandidateEnd" /\ tok.len = lexer.n
         /\ Leave({"Normal"}) /\ buffer' = 0 /\ Finish(strip_indent(Last(open)))
      \/ /\ tok.t = "Literal" \/ (tok.t # "Interpolation" /\ tok.len < lexer.n)
            \/ (tok.t = "QuotesCandidateInterpolation" /\ tok.len = lexer.n)
         /\ Add(Slice(at, tok.len)) /\ buffer' = 0 /\ UNCHANGED <<lexer, modes, strings, status>>

MultiStringNext ==
  /\ status = "lexing" /\ lexer.mode = "MultiString"
  /\ LET tok == IF buffer > 0 THEN Token("Interpolation", 0) ELSE multistr_token(at)
     IN  IF buffer = 0 /\ at > Len(text) THEN at' = at /\ Fail
         ELSE /\ at' = at + tok.len
              /\ IF tok.t = "CandidateEnd" /\ tok.len > lexer.n THEN Fail
                 ELSE handle_multistr_token(tok)
  /\ UNCHANGED text

SNext == NormalNext \/ StringNext \/ MultiStringNext
----------------------------------------------------------------------------
(***************************************************************************)
(* What the text means, one character at a time.  An interpolation starts  *)
(* where the percent signs of the delimiter and a brace follow; a string   *)
(* ends at a quote with as many percent signs, unless a brace follows.     *)
(***************************************************************************)
Context(c, n) == [c |-> c, n |-> n, cells |-> <<>>]
Cell(c) == [c |-> c, indent |-> 0]
ExprCell(indent) == [c |-> "expr", indent |-> indent]

\* The lines of a string, and the string without its common indentation.
Lines(cells) ==
  FoldLeft(LAMBDA ls, x : IF x.c = "\n" THEN Append(ls, <<>>)
                          ELSE [ls EXCEPT ![Len(ls)] = Append(@, x)], <<<<>>>>, cells)
Blank(l) == \A i \in DOMAIN l : l[i].c = " "
IndentOf(l) == Max({k \in 0 .. Len(l) : \A i \in 1 .. k : l[i].c = " "})

\* An expression keeps its indentation if it comes first on its line and no
\* other expression follows.
Dedented(l, min) ==
  LET n == IndentOf(l)
      first == n + 1 \in DOMAIN l /\ l[n + 1].c = "expr"
               /\ \A i \in DOMAIN l : l[i].c = "expr" => i = n + 1
      full == IF first THEN [l EXCEPT ![n + 1] = ExprCell(n - min)] ELSE l
  IN  SubSeq(full, (IF n < min THEN n ELSE min) + 1, Len(l))

Dedent(cells) ==
  LET ls  == Lines(cells)
      min == Min({NoIndent} \cup {IndentOf(ls[i]) : i \in {j \in DOMAIN ls : ~Blank(ls[j])}})
      from == IF Len(ls) > 1 /\ Blank(ls[1]) THEN 2 ELSE 1
      to   == IF Len(ls) > from /\ Blank(Last(ls)) THEN Len(ls) - 1 ELSE Len(ls)
      kept == [i \in 1 .. to + 1 - from |-> Dedented(ls[from + i - 1], min)]
  IN  FoldLeft(LAMBDA acc, l : acc \o <<Cell("\n")>> \o l, kept[1], Tail(kept))

RECURSIVE Scan(_, _, _)
Scan(i, ctxs, found) ==
  LET top == Last(ctxs)
      c == Char(i)
      k == Run(i + 1, {"%"})
      brace == Char(i + 1 + k) = "{"
      Put(x)    == Scan(i + 1, [ctxs EXCEPT ![Len(ctxs)].cells = Append(@, Cell(x))], found)
      Push(j, x) == Scan(j, Append(ctxs, x), found)
      Count(d)  == Scan(i + 1, [ctxs EXCEPT ![Len(ctxs)].n = @ + d], found)
      Close(j, cells) == Scan(j, Front(ctxs), Append(found, cells))
      Bad       == [ok |-> FALSE, found |-> found]
  IN  CASE i > Len(text) -> [ok |-> Len(ctxs) = 1, found |-> found]
        [] i =< Len(text) /\ top.c = "expr" ->
             (CASE c = "\"" -> Push(i + 1, Context("str", 0))
                [] c = "m" /\ Char(i - 1) \notin Letters /\ k > 0 /\ Char(i + 1 + k) = "\"" ->
                     Push(i + k + 2, Context("multi", k))
                [] c = "{" -> Count(1)
                [] c = "}" /\ top.n > 0 -> Count(-1)
                [] c = "}" /\ top.n = 0 ->
                     IF Len(ctxs) = 1 THEN Bad
                     ELSE Scan(i + 1, [Front(ctxs) EXCEPT ![Len(ctxs) - 1].cells = Append(@, ExprCell(0))],
                               found)
                [] c = "#" -> Scan(i + RunOutside(i, {"\n"}), ctxs, found)
                [] c = "\\" -> Bad
                [] OTHER -> Scan(i + 1, ctxs, found))
        [] i =< Len(text) /\ top.c = "str" ->
             (CASE c = "\"" -> Close(i + 1, top.cells)
                [] c = "%" /\ Char(i + 1) = "{" -> Push(i + 2, Context("expr", 0))
                [] c = "\\" ->
                     IF Char(i + 1) \notin Escapes THEN Bad
                     ELSE Scan(i + 2, [ctxs EXCEPT ![Len(ctxs)].cells = Append(@, Cell(Char(i + 1)))], found)
                [] OTHER -> Put(c))
        [] OTHER ->
             (CASE /\ \A j \in 0 .. top.n - 1 : Char(i + j) = "%"
                   /\ Char(i + top.n) = "{" -> Push(i + top.n + 1, Context("expr", 0))
                [] c = "\"" /\ ~brace /\ k = top.n -> Close(i + k + 1, Dedent(top.cells))
                [] c = "\"" /\ ~brace /\ k > top.n -> Bad
                [] OTHER -> Put(c))

Meaning == Scan(1, <<Context("expr", 0)>>, <<>>)

CellsOf(chunks) ==
  FlattenSeq([i \in DOMAIN chunks |->
    IF chunks[i].k = "Expr" THEN <<ExprCell(chunks[i].indent)>>
    ELSE [j \in DOMAIN chunks[i].s |-> Cell(chunks[i].s[j])]])

(***************************************************************************)
(* The strings of a program are what its text says, whatever the nesting   *)
(* of strings, interpolations and braces, the lengths of the delimiters    *)
(* and the indentation, and a text is rejected when one of its strings is  *)
(* not closed (Lexer::next, strip_indent).                                 *)
(***************************************************************************)
StringsRight ==
  /\ status # "panic"
  /\ status \in {"end", "error"} => (status = "end") = Meaning.ok
  /\ status = "end" => [i \in DOMAIN strings |-> CellsOf(strings[i])] = Meaning.found
=============================================================================
