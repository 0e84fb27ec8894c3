------------------------------- MODULE Codecs -------------------------------
(***************************************************************************)
(* The text conversions the plugins write by hand, checked against their   *)
(* readers: SQL literals and JSON strings (postgres, sql_postgres,         *)
(* elasticsearch), the scan of a search response, and cron fields          *)
(* (cron/local).                                                           *)
(*                                                                         *)
(* A text is a sequence of characters, of which only the kinds that some   *)
(* conversion treats differently are told apart; "src" stands for the      *)
(* letters _source and "hex" for the four digits of a \u escape.  A cron   *)
(* field is built from items (what its author means) and written out.      *)
(* One behaviour grows a text, or a field, and the invariants say what     *)
(* each conversion makes of every one.                                     *)
(***************************************************************************)
EXTENDS Integers, Sequences, FiniteSets
LOCAL INSTANCE SequencesExt

CONSTANTS
    Chars,      \* kinds of characters a text is made of
    MaxText,    \* bound: length of a text
    CronItems,  \* items of a cron field
    MaxItems,   \* bound: items of a field
    FieldRanges \* the fields' ranges, as parse() passes them to parse_field

ASSUME CodecAssumption ==
    /\ MaxText \in Nat
    /\ MaxItems \in Nat
    /\ \A i \in 1..Len(FieldRanges) : FieldRanges[i][1] <= FieldRanges[i][2]

VARIABLES
    text,       \* a value some caller passes in
    field       \* a cron field, as a sequence of items

codecVars == <<text, field>>

\* Every character replaced by the characters it is written as.
Rewrite(s, Out(_)) == FlattenSeq([i \in 1..Len(s) |-> Out(s[i])])

Nowhere == 0

\* The first position of needle in s at or after from, or Nowhere.
Find(s, needle, from) ==
    LET at == {i \in from..(Len(s) - Len(needle) + 1) :
                  SubSeq(s, i, i + Len(needle) - 1) = needle}
    IN IF at = {} THEN Nowhere ELSE CHOOSE i \in at : \A j \in at : i <= j
-----------------------------------------------------------------------------
(***************************************************************************)
(* SQL string literals.                                                    *)
(***************************************************************************)

\* postgres_plugin escape_sql_literal: an embedded quote is doubled.
EscapeSqlLiteral(value) ==
    Rewrite(value, LAMBDA c : IF c = "quote" THEN <<"quote", "quote">> ELSE <<c>>)

\* sql_postgres quoted_list: the values quoted, escaped and joined by commas.
QuotedList(values) ==
    FlattenSeq([i \in 1..Len(values) |->
        (IF i > 1 THEN <<",">> ELSE <<>>)
           \o <<"quote">> \o EscapeSqlLiteral(values[i]) \o <<"quote">>])

\* How the server reads a list of literals: a doubled quote is a quote, any
\* other quote ends the literal, and only a comma may follow it.
RECURSIVE ReadLiterals(_, _, _)
ReadLiterals(s, open, cur) ==
    IF s = <<>> THEN IF open THEN <<"unterminated">> ELSE <<>>
    ELSE IF ~open
    THEN IF Head(s) = "quote" THEN ReadLiterals(Tail(s), TRUE, <<>>)
         ELSE IF Head(s) = "," THEN ReadLiterals(Tail(s), FALSE, <<>>)
         ELSE <<"syntax error">>
    ELSE IF Head(s) # "quote" THEN ReadLiterals(Tail(s), TRUE, Append(cur, Head(s)))
    ELSE IF Len(s) > 1 /\ s[2] = "quote"
    THEN ReadLiterals(SubSeq(s, 3, Len(s)), TRUE, Append(cur, "quote"))
    ELSE <<cur>> \o ReadLiterals(Tail(s), FALSE, <<>>)
-----------------------------------------------------------------------------
(***************************************************************************)
(* JSON strings.                                                           *)
(***************************************************************************)
ControlChars == {"nl", "cr", "tab", "ctl"}

\* postgres_plugin escape_json.
EscapeJson(value) ==
    Rewrite(value, LAMBDA c :
        CASE c = "dquote" -> <<"bslash", "dquote">>
          [] c = "bslash" -> <<"bslash", "bslash">>
          [] c = "nl"     -> <<"bslash", "n">>
          [] c = "cr"     -> <<"bslash", "r">>
          [] c = "tab"    -> <<"bslash", "t">>
          [] c = "ctl"    -> <<"bslash", "u", "hex">>
          [] OTHER        -> <<c>>)

\* elasticsearch escape_json: of the control characters only the newline.
EsEscapeJson(value) ==
    Rewrite(value, LAMBDA c :
        CASE c = "dquote" -> <<"bslash", "dquote">>
          [] c = "bslash" -> <<"bslash", "bslash">>
          [] c = "nl"     -> <<"bslash", "n">>
          [] OTHER        -> <<c>>)

\* A JSON reader's view of the characters between two quotes: the text, or
\* Malformed on a bare quote, a bare control character or a broken escape.
Malformed == <<"malformed">>
RECURSIVE ReadJson(_)
ReadJson(s) ==
    IF s = <<>> THEN <<>>
    ELSE LET esc  == IF Len(s) < 2 THEN "none" ELSE s[2]
             used == IF Head(s) # "bslash" THEN 1 ELSE IF esc = "u" THEN 3 ELSE 2
             char == IF Head(s) # "bslash" THEN Head(s)
                     ELSE CASE esc \in {"dquote", "bslash"} -> esc
                            [] esc = "n" -> "nl"
                            [] esc = "r" -> "cr"
                            [] esc = "t" -> "tab"
                            [] esc = "u" -> "ctl"
                            [] OTHER -> "bad"
             bad  == char = "bad" \/ (Head(s) # "bslash" /\ char \in ControlChars \cup {"dquote"})
             rest == ReadJson(SubSeq(s, used + 1, Len(s)))
         IN IF bad \/ rest = Malformed THEN Malformed ELSE <<char>> \o rest
-----------------------------------------------------------------------------
(***************************************************************************)
(* Search: the two backends' answers.                                      *)
(***************************************************************************)
\* Mutant: a backslash inside a string does not hide the next character.
RECURSIVE ScanNoEscape(_, _, _, _)
ScanNoEscape(s, i, depth, inString) ==
    IF i > Len(s) THEN Nowhere
    ELSE IF inString THEN ScanNoEscape(s, i + 1, depth, s[i] # "dquote")
    ELSE IF s[i] = "dquote" THEN ScanNoEscape(s, i + 1, depth, TRUE)
    ELSE IF s[i] = "}" /\ depth = 1 THEN i
    ELSE ScanNoEscape(s, i + 1,
             depth + (IF s[i] = "{" THEN 1 ELSE IF s[i] = "}" THEN -1 ELSE 0), FALSE)
MatchingBraceNoEscape(s, open) == ScanNoEscape(s, open, 0, FALSE)

\* elasticsearch matching_brace: the closing brace of the object opened at
\* `open`, braces inside strings not counted.
RECURSIVE Scan(_, _, _, _)
Scan(s, i, depth, inString) ==
    IF i > Len(s) THEN Nowhere
    ELSE IF inString
    THEN Scan(s, IF s[i] = "bslash" THEN i + 2 ELSE i + 1, depth, s[i] # "dquote")
    ELSE IF s[i] = "dquote" THEN Scan(s, i + 1, depth, TRUE)
    ELSE IF s[i] = "}" /\ depth = 1 THEN i
    ELSE Scan(s, i + 1,
             depth + (IF s[i] = "{" THEN 1 ELSE IF s[i] = "}" THEN -1 ELSE 0), FALSE)
MatchingBrace(s, open) == Scan(s, open, 0, FALSE)

Marker == <<"dquote", "src", "dquote", ":">>

\* The hits found at or after pos: extract_sources's loop, which goes on after
\* each object it takes and stops at the first it cannot close.
RECURSIVE SourcesFrom(_, _)
SourcesFrom(s, pos) ==
    LET marker == Find(s, Marker, pos)
        open   == IF marker = Nowhere THEN Nowhere ELSE Find(s, <<"{">>, marker + Len(Marker))
        close  == IF open = Nowhere THEN Nowhere ELSE MatchingBrace(s, open)
    IN IF close = Nowhere THEN <<>>
       ELSE <<SubSeq(s, open, close)>> \o SourcesFrom(s, close + 1)

\* A JSON array of documents.
ArrayOf(docs) ==
    <<"[">> \o FlattenSeq([i \in 1..Len(docs) |-> (IF i > 1 THEN <<",">> ELSE <<>>) \o docs[i]])
            \o <<"]">>

\* extract_sources
ExtractSources(response) == ArrayOf(SourcesFrom(response, 1))

Failed == <<>>      \* the callback's ""

\* elasticsearch search: the clause it posts, and what it makes of the reply.
EsClause(freeText, query) ==
    LET base == IF query = <<>> THEN <<"match_all">> ELSE query
    IN IF freeText = <<>> THEN base
       ELSE base \o <<"query_string", "dquote">> \o EsEscapeJson(freeText) \o <<"dquote">>
EsSearch(status, response) ==
    IF status < 200 \/ status >= 300 THEN Failed ELSE ExtractSources(response)

\* postgres search: the condition it selects by.
PgWhere(collection, freeText, query) ==
    <<QuotedList(<<collection>>)>>
      \o (IF freeText # <<>> THEN <<<<"quote", "%">> \o EscapeSqlLiteral(freeText) \o <<"%", "quote">>>> ELSE <<>>)
      \o (IF query # <<>> THEN <<<<"(">> \o query \o <<")">>>> ELSE <<>>)

\* select_documents: without a connection or on a failed query nothing is
\* found; otherwise the rows' JSON, as it is, in one array.
PgSearch(connected, ok, rows) == IF ~connected \/ ~ok THEN Failed ELSE ArrayOf(rows)

\* A document with text as a member, and one that holds it one level down under
\* a member that is itself named _source; and what the node answers for both.
Document(t) == <<"{", "dquote">> \o EscapeJson(t) \o <<"dquote", "}">>
Nesting(t)  == <<"{">> \o Marker \o Document(t) \o <<"}">>
HitsOf(docs) ==
    <<"{", "dquote", "n", "dquote", ":", "{">>
      \o FlattenSeq([i \in 1..Len(docs) |-> <<"{">> \o Marker \o docs[i] \o <<"}">>])
      \o <<"}", "}">>
-----------------------------------------------------------------------------
(***************************************************************************)
(* Cron fields.  An item is [kind, a, b]: star, step a, range a-b, number  *)
(* a, or a token no grammar accepts (kind bad, written as a says).  Its    *)
(* written form is a token of characters; numbers are one character each.  *)
(***************************************************************************)
Written(item) ==
    CASE item.kind = "star"  -> <<"*">>
      [] item.kind = "step"  -> <<"*", "/", item.a>>
      [] item.kind = "range" -> <<item.a, "-", item.b>>
      [] item.kind = "num"   -> <<item.a>>
      [] item.kind = "empty" -> <<>>
      [] item.kind = "open"  -> <<item.a, "-">>

RECURSIVE Join(_)
Join(tokens) ==
    IF Len(tokens) = 1 THEN tokens[1] ELSE tokens[1] \o <<",">> \o Join(Tail(tokens))

FieldText(items) == Join([i \in 1..Len(items) |-> Written(items[i])])

\* The value of a number's character, and parse_int: the number a whole text
\* is, or none.
Digits == [c \in {"0", "1", "2", "3", "4", "5", "6", "7", "8", "9"} |->
             CHOOSE n \in 0..9 : <<"0", "1", "2", "3", "4", "5", "6", "7", "8", "9">>[n + 1] = c]
ParseInt(s) == IF Len(s) = 1 /\ s[1] \in DOMAIN Digits THEN {Digits[s[1]]} ELSE {}

Bad == {-1}         \* parse_token returned false

\* The values that start min and go on in steps of n; the range lo..hi of the
\* field, for parsed bounds; Bad where a number is missing or makes no sense.
Steps(n, min, max)  == IF \E k \in n : k > 0 THEN {v \in min..max : \E k \in n : (v - min) % k = 0} ELSE Bad
Spans(lo, hi)       == \E l \in lo, h \in hi : l <= h
Between(lo, hi)     == UNION {l..h : l \in lo, h \in hi}

\* Mutant of parse_token: a range may run over the end of the field.
ParseTokenUnclamped(token, min, max) ==
    LET dash == Find(token, <<"-">>, 1)
        num  == ParseInt(token)
        lo   == ParseInt(SubSeq(token, 1, dash - 1))
        hi   == ParseInt(SubSeq(token, dash + 1, Len(token)))
    IN IF token = <<"*">> THEN min..max
       ELSE IF Len(token) > 1 /\ SubSeq(token, 1, 2) = <<"*", "/">>
       THEN Steps(ParseInt(SubSeq(token, 3, Len(token))), min, max)
       ELSE IF dash # Nowhere THEN IF Spans(lo, hi) THEN Between(lo, hi) ELSE Bad
       ELSE IF num \cap (min..max) # {} THEN num ELSE Bad

\* parse_token, its tests in the code's order.  A range is clamped to the field
\* and may come out empty; a number outside the field is refused.
ParseToken(token, min, max) ==
    LET dash == Find(token, <<"-">>, 1)
        num  == ParseInt(token)
        lo   == ParseInt(SubSeq(token, 1, dash - 1))
        hi   == ParseInt(SubSeq(token, dash + 1, Len(token)))
    IN IF token = <<"*">> THEN min..max
       ELSE IF Len(token) > 1 /\ SubSeq(token, 1, 2) = <<"*", "/">>
       THEN Steps(ParseInt(SubSeq(token, 3, Len(token))), min, max)
       ELSE IF dash # Nowhere
       THEN IF Spans(lo, hi) THEN Between(lo, hi) \cap (min..max) ELSE Bad
       ELSE IF num \cap (min..max) # {} THEN num ELSE Bad

\* parse_field: the values of all tokens; none at all (nullopt) when a token is
\* refused or the tokens leave nothing.
RECURSIVE FieldFrom(_, _, _)
FieldFrom(s, min, max) ==
    LET comma == Find(s, <<",">>, 1)
        token == IF comma = Nowhere THEN s ELSE SubSeq(s, 1, comma - 1)
        here  == ParseToken(token, min, max)
        rest  == IF comma = Nowhere THEN {} ELSE FieldFrom(SubSeq(s, comma + 1, Len(s)), min, max)
    IN IF here = Bad \/ rest = Bad THEN Bad ELSE here \cup rest
ParseField(s, min, max) == LET vs == FieldFrom(s, min, max) IN IF vs = Bad THEN {} ELSE vs

\* What an item means to its author.
Means(item, v) ==
    CASE item.kind = "star"  -> TRUE
      [] item.kind = "step"  -> Digits[item.a] > 0 /\ (v - FieldRanges[1][1]) % Digits[item.a] = 0
      [] item.kind = "range" -> Digits[item.a] <= v /\ v <= Digits[item.b]
      [] item.kind = "num"   -> Digits[item.a] = v
      [] OTHER               -> FALSE
\* The items the grammar has.
Sensible(item) ==
    /\ item.kind \in {"star", "step", "range", "num"}
    /\ item.kind = "step"  => Digits[item.a] > 0
    /\ item.kind = "range" => Digits[item.a] <= Digits[item.b]
    /\ item.kind = "num"   => Digits[item.a] \in FieldRanges[1][1]..FieldRanges[1][2]

\* CronExpression::parse: one field per range, each of them accepted; the
\* result is the set of values per field, or none.
ParseCron(fields) ==
    LET parsed == [i \in 1..Len(fields) |->
                     ParseField(fields[i], FieldRanges[i][1], FieldRanges[i][2])]
    IN IF Len(fields) # Len(FieldRanges) THEN {}
       ELSE IF \E i \in 1..Len(fields) : parsed[i] = {} THEN {}
       ELSE {parsed}

\* A minute t broken down into its fields, the first turning fastest, as minutes
\* and hours do (months of unequal length are left out); matches, which asks
\* every field for its part; and next_after, the first match after base within
\* the horizon.
Size(i)     == FieldRanges[i][2] - FieldRanges[i][1] + 1
Turn(i)     == FoldLeft(LAMBDA acc, j : acc * Size(j), 1, [j \in 1..(i - 1) |-> j])
Part(i, t)  == FieldRanges[i][1] + ((t \div Turn(i)) % Size(i))
Horizon     == Turn(Len(FieldRanges) + 1)
CronMatches(expr, t) == \A i \in 1..Len(expr) : Part(i, t) \in expr[i]
NextAfterScan(expr, base) ==
    LET hits == {t \in (base + 1)..(base + Horizon) : CronMatches(expr, t)}
    IN IF hits = {} THEN {} ELSE {CHOOSE t \in hits : \A u \in hits : t <= u}

\* LocalCron's two questions about an expression: is it one, and when is it due
\* next (never, if it is not one).
Validate(fields) == ParseCron(fields) # {}
NextAfter(fields, base) == UNION {NextAfterScan(expr, base) : expr \in ParseCron(fields)}
-----------------------------------------------------------------------------
CodecInit == text = <<>> /\ field = <<>>

\* A longer text.
GrowText ==
    /\ Len(text) < MaxText /\ field = <<>>
    /\ \E c \in Chars : text' = Append(text, c)
    /\ UNCHANGED field

\* A longer cron field.
GrowField ==
    /\ Len(field) < MaxItems /\ text = <<>>
    /\ \E i \in CronItems : field' = Append(field, i)
    /\ UNCHANGED text

CodecNext == GrowText \/ GrowField

CodecSpec == CodecInit /\ [][CodecNext]_codecVars
-----------------------------------------------------------------------------
\* Whatever the keys of a request are, the server reads back from the list that
\* quoted_list makes exactly those keys, quotes and all; and from postgres's
\* search condition the collection and the pattern asked for.
LiteralsReadBack ==
    LET keys == <<text, <<"n">>, text>>
    IN /\ ReadLiterals(QuotedList(keys), FALSE, <<>>) = keys
       /\ \A part \in 1..(IF text = <<>> THEN 1 ELSE 2) :
             ReadLiterals(PgWhere(text, text, <<>>)[part], FALSE, <<>>)
                = <<IF part = 1 THEN text ELSE <<"%">> \o text \o <<"%">>>>

\* Every text survives postgres_plugin's escape_json and a JSON reader; a free
\* text of the characters elasticsearch's escape_json knows survives its query.
JsonStringsReadBack ==
    /\ ReadJson(EscapeJson(text)) = text
    /\ (text # <<>> /\ \A i \in 1..Len(text) : text[i] \notin ControlChars \ {"nl"}) =>
          LET clause == EsClause(text, <<>>)
          IN ReadJson(SubSeq(clause, 4, Len(clause) - 1)) = text

\* The two search backends hand a caller the same array for the same documents:
\* extract_sources finds each hit's _source, whole, in order, once, whatever
\* braces, quotes or markers the documents' own strings and keys contain.
SearchBackendsAgree ==
    LET docs == <<Document(text), Nesting(text)>>
    IN EsSearch(200, HitsOf(docs)) = PgSearch(TRUE, TRUE, docs)

\* Every text a caller passes in survives the encodings around it: SQL literals,
\* JSON strings, and the documents of a search.
TextsReadBack == LiteralsReadBack /\ JsonStringsReadBack /\ SearchBackendsAgree

\* What the local cron accepts, and what it takes it to mean: a field of items
\* the grammar has means the values its items mean, inside the field's range;
\* one whose items mean nothing there, or with a token outside the grammar, is
\* refused.  The next fire time is then always within one turn of the cycle.
CronFieldsMean ==
    field # <<>> =>
      LET fields == <<FieldText(field), <<"*">>>>
          range  == FieldRanges[1][1]..FieldRanges[1][2]
          meant  == {v \in range : \E i \in 1..Len(field) : Means(field[i], v)}
      IN /\ Validate(fields) <=> (meant # {} /\ \A i \in 1..Len(field) : Sensible(field[i]))
         /\ ParseCron(fields) \subseteq {<<meant, FieldRanges[2][1]..FieldRanges[2][2]>>}
         /\ Validate(fields) => \A base \in 0..Horizon :
               \E t \in NextAfter(fields, base) :
                  \A u \in (base + 1)..(t - 1) : Part(1, u) \notin meant

\* elasticsearch_plugin.cc:271-273 says its escape_json handles "same minimal
\* quote/backslash/control-character set postgres_plugin's own escape_json()
\* handles".
EscapeSetsAgree == EsEscapeJson(text) = EscapeJson(text)
=============================================================================
