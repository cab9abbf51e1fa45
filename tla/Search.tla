------------------------------- MODULE Search -------------------------------
(***************************************************************************)
(* The search box of a signal page: the query language (lexer, parser and  *)
(* the validator behind the editor's underline), the two completion        *)
(* sources, the field list they all read, and submission.                  *)
(*                                                                         *)
(* A text is a sequence of words with the cursor at its end, behind blanks *)
(* or not. A word stands for one lexeme: an identifier, a quoted string,   *)
(* an operator, a bracket. The field tables are represented by one field   *)
(* of each kind with its real operators.                                   *)
(* One key, timer or answer of the server is one action.                   *)
(* Left out: highlighting, the help dialog, the filter popover, undo, and  *)
(* the unmounting of the editor, which TracesPage has.                     *)
(***************************************************************************)
EXTENDS Integers, Sequences, SequencesExt, FiniteSets

CONSTANTS Signals,     \* the pages whose editor is looked at
          Phrases,     \* what a user types in one go: sequences of words
          Attributes,  \* what get<Signal>Attributes answers, in order
          Dictionary,  \* what searchAttributes answers: [name, scope, value]
          MaxPhrases,  \* bound on phrases typed
          MaxSubmits,  \* bound on submissions
          MaxEvents    \* bound on the events of a behaviour

ASSUME SearchAssumption ==
  /\ Signals \subseteq {"traces", "logs", "metrics"}
  /\ \A d \in Dictionary : DOMAIN d = {"name", "scope", "value"}
  /\ MaxPhrases \in Nat /\ MaxSubmits \in Nat /\ MaxEvents \in Nat

----------------------------------------------------------------------------
(* Operators and fields.  A field name is the sequence of words it reads   *)
(* as: one identifier, or more when the key has other characters in it.    *)

OPERATORS == {"=", "!=", ">", "<", "CONTAINS", "NOT CONTAINS", "IN", "NOT IN"}

getOperatorsForFieldType(type) ==
  CASE type = "string"  -> {"=", "!=", "CONTAINS", "NOT CONTAINS", "IN", "NOT IN"}
    [] type = "int64"   -> {"=", "!=", ">", "<", "IN", "NOT IN"}
    [] type = "boolean" -> {"=", "!=", "IN", "NOT IN"}
    [] OTHER            -> {"=", "!="}

Field(name, type, operators, enum) ==
  [name |-> <<name>>, scope |-> "field", type |-> type, operators |-> operators, enum |-> enum]

RESOURCE_FIELDS == <<Field("resource.droppedAttributesCount", "int64", {"=", "!=", ">", "<"}, {})>>
SCOPE_FIELDS    == <<Field("scope.name", "string", {"=", "!=", "CONTAINS", "NOT CONTAINS"}, {})>>
SPAN_FIELDS     == <<Field("name", "string", {"=", "!=", "CONTAINS", "NOT CONTAINS"}, {}),
                     Field("kind", "string", {"=", "!=", "IN", "NOT IN"}, {"Server"}),
                     Field("duration", "int64", {"=", "!=", ">", "<"}, {})>>
LOG_FIELDS      == <<Field("severityText", "string", {"=", "!=", "IN", "NOT IN"}, {"ERROR"}),
                     Field("body", "string", {"=", "!=", "CONTAINS", "NOT CONTAINS"}, {})>>
METRIC_FIELDS   == <<Field("name", "string", {"=", "!=", "CONTAINS", "NOT CONTAINS"}, {}),
                     Field("type", "string", {"=", "!=", "IN", "NOT IN"}, {"Gauge"})>>

getFieldsBySignal(signal) ==
  RESOURCE_FIELDS \o SCOPE_FIELDS \o
  (CASE signal = "traces" -> SPAN_FIELDS [] signal = "logs" -> LOG_FIELDS
     [] signal = "metrics" -> METRIC_FIELDS)

\* The wire spells a boolean attribute 'bool'.
fieldTypeFromWire(type) == IF type = "bool" THEN "boolean" ELSE type

\* Entries without a name, a type or a scope are dropped.
convertAttributesToFieldDefinitions(attributes) ==
  LET valid == SelectSeq(attributes, LAMBDA a : <<>> # a.name /\ a.type # "" /\ a.scope # "")
  IN [i \in DOMAIN valid |->
        [name |-> valid[i].name, scope |-> valid[i].scope, type |-> fieldTypeFromWire(valid[i].type),
         operators |-> getOperatorsForFieldType(fieldTypeFromWire(valid[i].type)), enum |-> {}]]

NoField == Field("", "", {}, {})

Lower(word) == IF word = "Name" THEN "name" ELSE word

\* The first field of that name, whatever its scope, case ignored.
findField(word, fields) ==
  LET hits == {i \in DOMAIN fields :
                 Len(fields[i].name) = 1 /\ Lower(fields[i].name[1]) = Lower(word)}
  IN IF hits = {} THEN NoField ELSE fields[CHOOSE i \in hits : \A j \in hits : i <= j]

----------------------------------------------------------------------------
(* The lexer.                                                              *)

Quoted   == {"'Red Bull'", "'null'", "'Mercedes'"}
Symbols  == {"=", "!=", ">", "<", "=~", ":"}
Keywords == {"IN", "CONTAINS"}
Negated  == [IN |-> "NOT IN", CONTAINS |-> "NOT CONTAINS"]
Marks    == [p \in {"(", ")", "[", "]", ","} |->
               CASE p = "(" -> "LPAREN" [] p = ")" -> "RPAREN" [] p = "[" -> "LBRACKET"
                 [] p = "]" -> "RBRACKET" [] OTHER -> "COMMA"]

\* nextToken: a number or an unquoted value reads as FIELD.
TypeOfWord(word) ==
  CASE word \in DOMAIN Marks              -> Marks[word]
    [] word \in Symbols \cup Keywords     -> "OPERATOR"
    [] word \in Quoted \cup {"NULL", "/"} -> "VALUE"
    [] word \in {"AND", "OR"}             -> "LOGICAL"
    [] OTHER                              -> "FIELD"

\* NOT must be followed by IN or CONTAINS, or tokenize throws.
LexFails(text) ==
  \E i \in DOMAIN text :
    text[i] = "NOT" /\ (i = Len(text) \/ text[i + 1] \notin Keywords)

tokenize(text) ==
  LET starts == SelectSeq([i \in DOMAIN text |-> i], LAMBDA i : ~(i > 1 /\ text[i - 1] = "NOT"))
  IN [k \in DOMAIN starts |->
        LET w == text[starts[k]]
        IN IF w = "NOT" THEN [type |-> "OPERATOR", value |-> Negated[text[starts[k] + 1]]]
           ELSE [type |-> TypeOfWord(w), value |-> w]]

Is(ts, i, type) == i \in DOMAIN ts /\ ts[i].type = type
IsValue(ts, i)  == Is(ts, i, "VALUE") \/ Is(ts, i, "FIELD")

HasStructuredSyntax(ts) == \E i \in DOMAIN ts : ts[i].type \in {"OPERATOR", "LOGICAL"}

----------------------------------------------------------------------------
(* The parser.  A result is a node and the index of the next token.        *)

Failed == [ok |-> FALSE]
Parsed(node, at) == [ok |-> TRUE, node |-> node, at |-> at]

\* A quoted null is a null too.
Normalize(word) == IF word \in {"NULL", "'null'"} THEN "NULL" ELSE word

Condition(field, operator, array, values) ==
  [type |-> "condition",
   query |-> [field |-> field, operator |-> operator, array |-> array, values |-> values]]

\* How many values, parted by commas, follow the bracket at i.
ArraySize(ts, i) ==
  CHOOSE n \in 0..Len(ts) :
    /\ \A k \in 1..n : IsValue(ts, i + 2 * k - 1) /\ (k > 1 => Is(ts, i + 2 * k - 2, "COMMA"))
    /\ ~(IsValue(ts, i + 2 * n + 1) /\ (n > 0 => Is(ts, i + 2 * n, "COMMA")))

\* Index of the token after the array's last value or, when empty, after "[".
ArrayClose(ts, i) == IF ArraySize(ts, i) = 0 THEN i + 1 ELSE i + 2 * ArraySize(ts, i)

parseCondition(ts, i, fields) ==
  LET field == findField(ts[i].value, fields)
      op    == ts[i + 1].value
  IN IF ~ /\ Is(ts, i, "FIELD") /\ field # NoField
          /\ Is(ts, i + 1, "OPERATOR") /\ op \in OPERATORS /\ op \in field.operators
     THEN Failed
     ELSE IF Is(ts, i + 2, "LBRACKET")
     THEN IF Is(ts, ArrayClose(ts, i + 2), "RBRACKET")
          THEN Parsed(Condition(field, op, TRUE,
                        [k \in 1..ArraySize(ts, i + 2) |-> ts[i + 1 + 2 * k].value]),
                      ArrayClose(ts, i + 2) + 1)
          ELSE Failed
     ELSE IF IsValue(ts, i + 2)
     THEN Parsed(Condition(field, op, FALSE, <<Normalize(ts[i + 2].value)>>), i + 3)
     ELSE Failed

Group(operator, left, right) ==
  [type |-> "group", group |-> [operator |-> operator, children |-> <<left, right>>]]

RECURSIVE parseExpression(_, _, _), ParseRest(_, _, _)

parseTerm(ts, i, fields) ==
  IF ~Is(ts, i, "LPAREN") THEN parseCondition(ts, i, fields)
  ELSE LET e == parseExpression(ts, i + 1, fields)
       IN IF e.ok /\ Is(ts, e.at, "RPAREN") THEN Parsed(e.node, e.at + 1) ELSE Failed

\* The loop of parseExpression: AND and OR bind alike, leftmost first.
ParseRest(left, ts, fields) ==
  IF ~left.ok \/ ~Is(ts, left.at, "LOGICAL") THEN left
  ELSE LET right == parseTerm(ts, left.at + 1, fields)
       IN IF right.ok
          THEN ParseRest(Parsed(Group(ts[left.at].value, left.node, right.node), right.at), ts, fields)
          ELSE Failed

parseExpression(ts, i, fields) == ParseRest(parseTerm(ts, i, fields), ts, fields)

\* Mutant: what follows the first complete expression is ignored.
parse_Leftover(ts, fields) == parseExpression(ts, 1, fields)

parse(ts, fields) ==
  LET e == parseExpression(ts, 1, fields)
  IN IF e.ok /\ e.at <= Len(ts) THEN Failed ELSE e

\* The whole input, matched anywhere.
createGlobalTextSearch(text) ==
  Condition([NoField EXCEPT !.scope = "global"], "CONTAINS", FALSE, text)

\* Input the lexer or the parser refuses is text to look for, unless it has an
\* operator or a logical word in it.
parseQuery(text, fields) ==
  IF LexFails(text) THEN Parsed(createGlobalTextSearch(text), 0)
  ELSE LET ts == tokenize(text)
           e  == parse(ts, fields)
       IN IF e.ok THEN e
          ELSE IF HasStructuredSyntax(ts) THEN Failed
          ELSE Parsed(createGlobalTextSearch(text), 0)

----------------------------------------------------------------------------
(* The validator: the same grammar walked again, collecting errors and     *)
(* going on after each.  A result is the tokens in error and the next one. *)

Seen(errors, at) == [errors |-> errors, at |-> at]

validateArray(ts, i) ==
  LET n == ArraySize(ts, i)
      c == ArrayClose(ts, i)
  IN IF n = 0 /\ ~Is(ts, i + 1, "RBRACKET") THEN Seen({i}, i + 1)
     ELSE IF Is(ts, c, "COMMA") THEN Seen({c}, c + 1)
     ELSE IF Is(ts, c, "RBRACKET") THEN Seen({}, c + 1)
     ELSE Seen({i}, c)

validateCondition(ts, i, fields) ==
  LET field    == findField(ts[i].value, fields)
      unknown  == IF field = NoField THEN {i} ELSE {}
      op       == ts[i + 1].value
      refused  == IF op \notin OPERATORS \/ (field # NoField /\ op \notin field.operators)
                  THEN {i + 1} ELSE {}
      soFar    == unknown \cup refused
  IN IF ~Is(ts, i, "FIELD") THEN Seen({i}, i + 1)
     ELSE IF ~Is(ts, i + 1, "OPERATOR")
     THEN Seen(unknown \cup {IF i + 1 \in DOMAIN ts THEN i + 1 ELSE i}, i + 1)
     ELSE IF Is(ts, i + 2, "LBRACKET")
     THEN LET a == validateArray(ts, i + 2) IN Seen(soFar \cup a.errors, a.at)
     ELSE IF IsValue(ts, i + 2) THEN Seen(soFar, i + 3)
     ELSE Seen(soFar \cup {i + 1}, i + 2)

RECURSIVE validateExpression(_, _, _), ValidateRest(_, _, _)

validateTerm(ts, i, fields) ==
  IF i \notin DOMAIN ts THEN Seen({}, i)
  ELSE IF ~Is(ts, i, "LPAREN") THEN validateCondition(ts, i, fields)
  ELSE LET e == validateExpression(ts, i + 1, fields)
       IN IF Is(ts, e.at, "RPAREN") THEN Seen(e.errors, e.at + 1)
          ELSE Seen(e.errors \cup {i}, e.at)

\* Mutant: a query may end in AND.
ValidateRest_Open(so, ts, fields) ==
  IF ~Is(ts, so.at, "LOGICAL") THEN so
  ELSE LET next == validateTerm(ts, so.at + 1, fields)
       IN ValidateRest(Seen(so.errors \cup next.errors, next.at), ts, fields)

ValidateRest(so, ts, fields) ==
  IF ~Is(ts, so.at, "LOGICAL") THEN so
  ELSE IF so.at = Len(ts) THEN Seen(so.errors \cup {so.at}, so.at + 1)
  ELSE LET next == validateTerm(ts, so.at + 1, fields)
       IN ValidateRest(Seen(so.errors \cup next.errors, next.at), ts, fields)

validateExpression(ts, i, fields) == ValidateRest(validateTerm(ts, i, fields), ts, fields)

\* The tokens underlined; 0 stands for the whole text.
validateQuery(text, fields) ==
  IF LexFails(text) THEN {0}
  ELSE LET ts == tokenize(text)
           v  == validateExpression(ts, 1, fields)
       IN IF ~HasStructuredSyntax(ts) THEN {}
          ELSE v.errors \cup (IF v.at \in DOMAIN ts THEN {v.at} ELSE {})

----------------------------------------------------------------------------
(* Submission: duration values, the wire form, and the store's own checks. *)

Conditions(node) ==
  LET RECURSIVE C(_)
      C(n) == IF n.type = "condition" THEN <<n.query>>
              ELSE C(n.group.children[1]) \o C(n.group.children[2])
  IN C(node)

Durations == {"1s"}

\* Whatever is called duration must hold one that parses; NULL does not.
normalizeDurationValues(node) ==
  \A i \in DOMAIN Conditions(node) :
    LET q == Conditions(node)[i]
    IN q.field.name = <<"duration">> => ~q.array /\ q.values[1] \in Durations

\* Only = and != read NULL, and a list needs a member.
BuildOperatorCondition(q) ==
  IF ~q.array /\ q.values = <<"NULL">> THEN q.operator \in {"=", "!="}
  ELSE q.operator \in {"IN", "NOT IN"} => q.values # <<>>

\* The wire form carries the tree as it is; the store refuses a query when it
\* refuses one of its conditions.
StoreAccepts(node) ==
  \A i \in DOMAIN Conditions(node) : BuildOperatorCondition(Conditions(node)[i])

----------------------------------------------------------------------------
VARIABLES
  signal,   \* prop: which page's editor
  phrases,  \* number of phrases typed, against MaxPhrases
  text,     \* the document
  attrs,    \* the fetch of dynamic attributes: "timer", "flight", "done", "failed"
  lint,     \* the underline: "none", "shown", or "due" while its delay runs
  popup,    \* options of the open completion list, each a new end of the text
  lookup,   \* the searchAttributes call the open editor waits for, or NoTerm
  error,    \* searchError
  seq,      \* latestListUpdateSeq of the signal
  sent,     \* searches in flight: [seq, node]
  shown,    \* history: the update whose rows the page shows
  events

vars == <<signal, phrases, text, attrs, lint, popup, lookup, error, seq, sent, shown, events>>

NoTerm == "none"

\* The static fields and, once they have come, the dynamic ones behind them.
availableFields(s, a) ==
  getFieldsBySignal(s) \o
  (IF a = "done" THEN convertAttributesToFieldDefinitions(Attributes) ELSE <<>>)

Fields == availableFields(signal, attrs)

\* An editor just mounted, or one whose attributes came long ago.
Init ==
  /\ signal \in Signals /\ phrases = 0 /\ text = <<>>
  /\ attrs \in {"timer", "done"} /\ lint = "none"
  /\ popup = {} /\ lookup = NoTerm
  /\ error = "none" /\ seq = 0 /\ sent = {} /\ shown = 0 /\ events = 0

----------------------------------------------------------------------------
(* Completion at the cursor.                                               *)

\* A new expression begins here: at the start, after AND or OR, after "(".
Fresh(before) == before = <<>> \/ Last(before) \in {"AND", "OR", "("}

Word(t) == IF t = <<>> \/ TypeOfWord(Last(t)) # "FIELD" THEN NoTerm ELSE Last(t)

fieldCompletions(fields) == {fields[i].name : i \in DOMAIN fields}

operatorCompletions(word, fields) ==
  LET f == findField(word, fields)
      ops == IF f = NoField THEN OPERATORS ELSE f.operators
  IN {<<op>> : op \in ops \ {"NOT IN", "NOT CONTAINS"}}

valueCompletions(word, fields) == {<<v>> : v \in findField(word, fields).enum}

logicalCompletions == {<<"AND">>, <<"OR">>}

\* The key-first source.  Which list it offers hangs on the syntax tree of the
\* generated parser, so any of them may be open: field names in place of the
\* last word or behind it, operators, AND and OR, or a field's listed values.
queryCompletionSource(t, fields) ==
  LET n      == Len(t)
      before == IF n = 0 THEN <<>> ELSE Front(t)
      valuesOf(i) == IF i \in 1..n THEN valueCompletions(t[i], fields) ELSE {}
  IN {before \o f : f \in IF Word(t) # NoTerm THEN fieldCompletions(fields) ELSE {}}
     \cup {t \o f : f \in fieldCompletions(fields)}
     \cup {t \o op : op \in IF n = 0 THEN {} ELSE operatorCompletions(t[n], fields)}
     \cup {t \o v : v \in valuesOf(n - 1)} \cup {before \o v : v \in valuesOf(n - 2)}
     \cup {t \o l : l \in logicalCompletions}

matchToQuery(m) == m.name \o <<"=", m.value>>

\* Mutant: any match of the dictionary is offered, searchable here or not.
Searchable_Any(m, fields) == TRUE

\* A match is offered when this editor has the attribute, of the same scope.
Searchable(m, fields) ==
  \E i \in DOMAIN fields : fields[i].scope = m.scope /\ fields[i].name = m.name

\* The document has become t: the underline's delay starts over, a key-first
\* list may open and, if the cursor is at a word that begins an expression, a
\* lookup of the word starts.
Edit(t) ==
  /\ text' = t
  /\ lint' = "due"
  /\ popup' \in {{}, queryCompletionSource(t, Fields)}
  /\ lookup' \in {NoTerm} \cup IF Word(t) # NoTerm /\ Fresh(Front(t)) THEN {Word(t)} ELSE {}

----------------------------------------------------------------------------
Type ==
  /\ phrases < MaxPhrases
  /\ phrases' = phrases + 1
  /\ \E p \in Phrases : Edit(text \o p)
  /\ UNCHANGED <<signal, attrs, error, seq, sent, shown>>

\* Enter or a click with the list open takes an option; the change of the text
\* aborts the lookup.
AcceptCompletion ==
  /\ popup # {}
  /\ \E o \in popup : text' = o
  /\ lint' = "due"
  /\ popup' = {} /\ lookup' = NoTerm
  /\ UNCHANGED <<signal, phrases, attrs, error, seq, sent, shown>>

\* Escape closes the list if one is open.
CloseCompletion ==
  /\ popup # {}
  /\ popup' = {}
  /\ UNCHANGED <<signal, phrases, text, attrs, lint, lookup, error, seq, sent, shown>>

\* valueDiscoverySource after its await; the field list is read then.
LookupReturns ==
  /\ lookup # NoTerm
  /\ popup' = popup \cup {Front(text) \o matchToQuery(m) : m \in {d \in Dictionary : Searchable(d, Fields)}}
  /\ lookup' = NoTerm
  /\ UNCHANGED <<signal, phrases, text, attrs, lint, error, seq, sent, shown>>

\* Its failure shows nothing.
LookupFails ==
  /\ lookup # NoTerm
  /\ lookup' = NoTerm
  /\ UNCHANGED <<signal, phrases, text, attrs, lint, popup, error, seq, sent, shown>>

\* The linter runs when the document has been quiet; a change of the field list
\* does not make it run again.
LintRuns ==
  /\ lint = "due"
  /\ lint' = IF text # <<>> /\ validateQuery(text, Fields) # {} THEN "shown" ELSE "none"
  /\ UNCHANGED <<signal, phrases, text, attrs, popup, lookup, error, seq, sent, shown>>

\* The effect that loads dynamic attributes runs once: what it reads of the
\* time window it reads inside its timer.
AttributesTimer ==
  /\ attrs = "timer"
  /\ attrs' = "flight"
  /\ UNCHANGED <<signal, phrases, text, lint, popup, lookup, error, seq, sent, shown>>

AttributesReturn ==
  /\ attrs = "flight"
  /\ attrs' \in {"done", "failed"}
  /\ UNCHANGED <<signal, phrases, text, lint, popup, lookup, error, seq, sent, shown>>

\* beginListUpdate and the call; node is absent for a search of everything.
Send(nodes) ==
  /\ seq < MaxSubmits
  /\ error' = "none" /\ seq' = seq + 1
  /\ sent' = sent \cup {[seq |-> seq + 1, nodes |-> nodes]}

\* onSubmit
Submit(t) ==
  LET q == parseQuery(t, Fields)
  IN IF t = <<>> THEN Send({})
     ELSE IF ~q.ok THEN error' = "parse" /\ UNCHANGED <<seq, sent>>
     ELSE IF ~normalizeDurationValues(q.node) THEN error' = "duration" /\ UNCHANGED <<seq, sent>>
     ELSE Send({q.node})

\* Enter with no list open, or the toolbar's button.
Enter ==
  /\ Submit(text)
  /\ popup' = {}
  /\ UNCHANGED <<signal, phrases, text, attrs, lint, lookup, shown>>

\* clearSearch submits the empty document it has just made.
ClearSearch ==
  /\ text # <<>>
  /\ Submit(<<>>)
  /\ Edit(<<>>)
  /\ UNCHANGED <<signal, phrases, attrs, shown>>

\* emitResults; the page takes the rows if no newer update has begun.
SearchReturns ==
  \E o \in sent :
    /\ \A n \in o.nodes : StoreAccepts(n)
    /\ sent' = sent \ {o}
    /\ shown' = IF o.seq = seq THEN o.seq ELSE shown
    /\ UNCHANGED <<signal, phrases, text, attrs, lint, popup, lookup, error, seq>>

SearchFails ==
  \E o \in sent :
    /\ sent' = sent \ {o}
    /\ error' = "failed"
    /\ UNCHANGED <<signal, phrases, text, attrs, lint, popup, lookup, seq, shown>>

Answers ==
  LookupReturns \/ LookupFails \/ LintRuns \/ AttributesTimer \/ AttributesReturn
    \/ SearchReturns \/ SearchFails

Next ==
  /\ events < MaxEvents
  /\ events' = events + 1
  /\ \/ Type \/ AcceptCompletion \/ CloseCompletion \/ Enter \/ ClearSearch \/ Answers

Spec == Init /\ [][Next]_vars

----------------------------------------------------------------------------
(* The grammar, said once more without a parser: an expression is split at *)
(* its last AND or OR outside parentheses, and is otherwise a              *)
(* parenthesised expression or one condition, to its last token.           *)

Depth(ts, lo, k) ==
  Cardinality({i \in lo..k : ts[i].type = "LPAREN"}) - Cardinality({i \in lo..k : ts[i].type = "RPAREN"})

Splits(ts, lo, hi) == {k \in lo..hi : ts[k].type = "LOGICAL" /\ Depth(ts, lo, k) = 0}

RECURSIVE Meaning(_, _, _, _)
Meaning(ts, lo, hi, fields) ==
  LET at    == CHOOSE k \in Splits(ts, lo, hi) : \A j \in Splits(ts, lo, hi) : j <= k
      left  == Meaning(ts, lo, at - 1, fields)
      right == Meaning(ts, at + 1, hi, fields)
      one   == parseCondition(ts, lo, fields)
  IN IF Splits(ts, lo, hi) # {}
     THEN IF left.ok /\ right.ok
          THEN [ok |-> TRUE, node |-> Group(ts[at].value, left.node, right.node)] ELSE Failed
     ELSE IF Is(ts, lo, "LPAREN") /\ lo < hi
     THEN IF ts[hi].type = "RPAREN" THEN Meaning(ts, lo + 1, hi - 1, fields) ELSE Failed
     ELSE IF lo <= hi /\ one.ok /\ one.at = hi + 1 THEN [ok |-> TRUE, node |-> one.node]
     ELSE Failed

TypeOK ==
  /\ signal \in Signals /\ phrases \in 0..MaxPhrases
  /\ attrs \in {"timer", "flight", "done", "failed"}
  /\ lint \in {"none", "shown", "due"}
  /\ error \in {"none", "parse", "duration", "failed"}
  /\ seq \in 0..MaxSubmits /\ {o.seq : o \in sent} \subseteq 1..seq /\ shown \in 0..seq
  /\ lookup # NoTerm => lookup = Last(text)

\* parse builds exactly the tree the grammar gives the text, whole: no word is
\* dropped, AND and OR bind alike and to the left (parse's comment about
\* `service.name = Red Bull Racing`, queryParser.ts:323-329).
ParsedWhole ==
  [][(Enter /\ text # <<>> /\ ~LexFails(text)) =>
       LET ts == tokenize(text)
           m  == Meaning(ts, 1, Len(ts), Fields)
       IN IF m.ok
          THEN \A o \in sent' \ sent : o.nodes = {m.node}
          ELSE HasStructuredSyntax(ts) => error' = "parse" /\ sent' = sent]_vars

\* The editor underlines what submission refuses and nothing else, once the
\* underline has settled and unless the field list has changed under it: "The
\* two now agree" (queryParser.ts:329).  Text the lexer refuses is apart: it is
\* underlined and still searched for.
UnderlineMeansRefused ==
  [][(LintRuns /\ text # <<>> /\ ~LexFails(text)) =>
       (lint' = "none" <=> parseQuery(text, Fields).ok)]_vars

\* A dictionary match that is on offer in place of the last word.
Suggested(m) == text # <<>> /\ Front(text) \o matchToQuery(m) \in popup

\* Taking the match puts no error under the words it inserts, unless any
\* condition in that place would have one.
NotUnderlined(m) ==
  LET o       == Front(text) \o matchToQuery(m)
      kept    == Len(tokenize(o)) - Len(matchToQuery(m))
      fine(t) == \A e \in validateQuery(t, Fields) : e <= kept
  IN ~LexFails(o) /\ fine(Front(text) \o <<"scope.name", "=", "'Red Bull'">>) => fine(o)

\* "Suggesting something and then underlining it is worse than not suggesting
\* it" (value-completions.ts:33-34), as the code keeps it: for a key that is one
\* identifier of the query language.  Nothing looks at the characters of a key
\* before a match is offered, so one such as db/system is underlined once taken.
SuggestionNotUnderlined ==
  \A m \in Dictionary : Suggested(m) /\ Len(m.name) = 1 => NotUnderlined(m)

\* Not so in the code (README, Disagreements).
\* The same sentence for every key.
NoSuggestionUnderlined == \A m \in Dictionary : Suggested(m) => NotUnderlined(m)

\* A suggestion fits the text it is offered for and stays accepted.
SuggestionsFit == TypeOK /\ SuggestionNotUnderlined
=============================================================================
