------------------------------ MODULE Templates ------------------------------
(***************************************************************************)
(* Placeholders in the responses of mock rules and of MCP tools:           *)
(* usecase/template.go, and the arguments of usecase/template_faker.go.    *)
(*                                                                         *)
(* A source is a sequence of elements.  A character is a quote, a          *)
(* backslash, or another one; a placeholder is [tag, rest, args, chars]:   *)
(* the part of its head before the first dot, the rest of the head as a    *)
(* path, its arguments, and the characters it is written with.  What is    *)
(* drawn at random is the leaf Drawn.  Times are hours after now.          *)
(***************************************************************************)
EXTENDS Matching

Char(c) == [tag |-> "", char |-> c]
Tag(ns, rest, args) == [tag |-> ns, rest |-> rest, args |-> args, chars |-> <<Char("other")>>]

Drawn == Leaf("drawn")
Known(v) == [ok |-> TRUE, value |-> v]
Unknown == [ok |-> FALSE, value |-> Null]
-----------------------------------------------------------------------------
(* The value of a placeholder.  A context is [project, method, path, params, *)
(* query, header, body, json].                                               *)

\* Text that is a plain number becomes a number.
Typed(text) == IF text \in DOMAIN NumberOf THEN Number(NumberOf[text]) ELSE Leaf(text)

FirstValue(map, name) ==
  IF name # <<>> /\ FirstOf(map, name[1]).found THEN Typed(map[name[1]][1]) ELSE Null

PathValue(name, ctx) ==
  IF name = <<>> THEN Unknown
  ELSE Known(IF name[1] \in DOMAIN ctx.params THEN Typed(ctx.params[name[1]]) ELSE Null)

BodyValue(path, ctx) == BodyLookup(ctx.body, path).value

RequestValue(rest, ctx) ==
  LET kind == IF rest = <<>> THEN "" ELSE Head(rest)
      name == IF rest = <<>> THEN <<>> ELSE Tail(rest)
  IN CASE kind = "method" -> [ok |-> name = <<>>, value |-> Leaf(ctx.method)]
       [] kind = "path" -> [ok |-> name = <<>>, value |-> Leaf("path")]
       [] kind = "query" -> [ok |-> name # <<>>, value |-> FirstValue(ctx.query, name)]
       [] kind = "header" -> [ok |-> name # <<>>, value |-> FirstValue(ctx.header, name)]
       [] kind = "body" -> Known(BodyValue(name, ctx))
       [] OTHER -> Unknown

\* An offset is [sign, count, unit]; days are counted in whole numbers.
ParseOffset(arg) ==
  LET hours == CASE arg.unit = "d" -> 24 * arg.count
                 [] arg.unit = "h" -> arg.count
                 [] OTHER -> 0
  IN [ok |-> arg.sign \in {"+", "-"} /\ arg.unit \in {"d", "h", "m"},
      hours |-> IF arg.sign = "-" THEN 0 - hours ELSE hours]

FormatTime(ns, rest, hours) ==
  CASE (ns = "timestamp" /\ rest = <<>>) \/ (ns = "now" /\ rest = <<"unix">>) ->
         Known(Number(2 * hours))
    [] ns \in {"now", "date"} /\ rest = <<>> -> Known(Drawn)
    [] OTHER -> Unknown

TimeValue(ns, rest, args) ==
  IF args = <<>> THEN FormatTime(ns, rest, 0)
  ELSE IF ParseOffset(args[1]).ok THEN FormatTime(ns, rest, ParseOffset(args[1]).hours)
  ELSE Unknown

FakerNames == {"name", "firstName", "lastName", "username", "email", "phone", "city",
               "country", "company", "word", "bool"}

\* Bad arguments leave the placeholder as written; an argument here is a number.
FakerSentence(args) == args = <<>> \/ args[1] >= 1
FakerNumber(args) == args = <<>> \/ (Len(args) = 2 /\ args[1] <= args[2])

FakerValue(rest, args) ==
  [ok |-> \/ rest \in {<<fn>> : fn \in FakerNames}
          \/ rest = <<"sentence">> /\ FakerSentence(args)
          \/ rest = <<"pick">> /\ args # <<>>
          \/ rest \in {<<"int">>, <<"float">>} /\ FakerNumber(args),
   value |-> Drawn]
-----------------------------------------------------------------------------
(* The counters live in memory, one for each project and name               *)

CounterName(args) == IF args = <<>> THEN "default" ELSE args[1]

KeyWithoutProject(project, name) == <<"", name>>
CounterKey(project, name) == <<project, name>>

CountOf(counters, key) == IF key \in DOMAIN counters THEN counters[key] ELSE 0

Bumped(counters, key) ==
  [k \in DOMAIN counters \cup {key} |->
     IF k = key THEN CountOf(counters, key) + 1 ELSE counters[k]]

\* The counter that evaluating a placeholder moves; it moves even when the
\* placeholder is not a known one because of what follows its name.
Moves(elem) == elem.tag = "counter"

CountersAfter(elem, ctx, counters) ==
  IF Moves(elem) THEN Bumped(counters, CounterKey(ctx.project, CounterName(elem.args)))
  ELSE counters

Value(elem, ctx, counters) ==
  CASE elem.tag = "request" -> RequestValue(elem.rest, ctx)
    [] elem.tag = "path" -> PathValue(elem.rest, ctx)
    [] elem.tag = "faker" -> FakerValue(elem.rest, elem.args)
    [] elem.tag = "uuid" -> [ok |-> elem.rest = <<>>, value |-> Drawn]
    [] elem.tag \in {"now", "timestamp", "date"} -> TimeValue(elem.tag, elem.rest, elem.args)
    [] elem.tag = "counter" ->
         [ok |-> elem.rest = <<>>,
          value |-> Number(2 * (CountOf(counters,
                             CounterKey(ctx.project, CounterName(elem.args))) + 1))]
    [] OTHER -> Unknown
-----------------------------------------------------------------------------
(* Rendering.  What is written is a sequence of characters and of values,    *)
(* [as, value]: a value is quoted and escaped for JSON, escaped only, or its *)
(* plain text.                                                               *)

Scanning == [out |-> <<>>, inString |-> FALSE, escaped |-> FALSE]

TrackJSONString(s, char) ==
  CASE s.escaped -> [s EXCEPT !.escaped = FALSE]
    [] ~ s.escaped /\ s.inString /\ char = "backslash" -> [s EXCEPT !.escaped = TRUE]
    [] ~ s.escaped /\ char = "quote" -> [s EXCEPT !.inString = ~ s.inString]
    [] OTHER -> s

Emit(v, json, inString) ==
  [as |-> IF json /\ inString THEN "escaped" ELSE IF json THEN "json" ELSE "plain", value |-> v]

Copy(s, elem, json) ==
  [(IF json THEN TrackJSONString(s, elem.char) ELSE s)
     EXCEPT !.out = Append(s.out, [as |-> elem.char, value |-> Null])]

\* An unknown placeholder is left as it is, character by character.
RenderElement(s, elem, ctx, counters) ==
  LET v == Value(elem, ctx, counters)
  IN IF elem.tag = "" THEN Copy(s, elem, ctx.json)
     ELSE IF v.ok THEN [s EXCEPT !.out = Append(s.out, Emit(v.value, ctx.json, s.inString))]
     ELSE FoldLeft(LAMBDA at, c : Copy(at, c, ctx.json), s, elem.chars)

\* [s, counters] after a whole source.
Render(src, ctx, counters) ==
  FoldLeft(LAMBDA acc, elem : [s |-> RenderElement(acc.s, elem, ctx, acc.counters),
                               counters |-> CountersAfter(elem, ctx, acc.counters)],
           [s |-> Scanning, counters |-> counters], src)

\* The strings of a decoded result: [kind |-> "template", src].  One that is a
\* single placeholder becomes its typed value; the counter it uses has moved
\* before it turns out to be unknown, and then moves again.
RenderString(src, ctx, counters) ==
  LET alone == Len(src) = 1 /\ src[1].tag # ""
      v == Value(src[1], ctx, counters)
      text == Render(src, [ctx EXCEPT !.json = FALSE],
                     IF alone THEN CountersAfter(src[1], ctx, counters) ELSE counters)
  IN IF alone /\ v.ok
     THEN [value |-> v.value, counters |-> CountersAfter(src[1], ctx, counters)]
     ELSE [value |-> [kind |-> "text", out |-> text.s.out], counters |-> text.counters]
-----------------------------------------------------------------------------
(* What is valid JSON, of texts that are a value or an array of values: the  *)
(* characters "open", "close" and "comma" are other characters to the        *)
(* scanner.                                                                  *)

JsonStep(at, piece) ==
  CASE at = "value" /\ piece.as = "json" -> "end"
    [] at = "value" /\ piece.as = "quote" -> "string"
    [] at = "value" /\ piece.as = "open" -> "item"
    [] at = "string" /\ piece.as = "quote" -> "end"
    [] at = "string" /\ piece.as = "backslash" -> "escape"
    [] at = "string" /\ piece.as \in {"other", "escaped", "open", "close", "comma"} -> "string"
    [] at = "escape" /\ piece.as \in {"quote", "backslash"} -> "string"
    [] at = "item" /\ piece.as = "json" -> "after"
    [] at = "item" /\ piece.as = "quote" -> "itemString"
    [] at = "itemString" /\ piece.as = "quote" -> "after"
    [] at = "itemString" /\ piece.as = "backslash" -> "itemEscape"
    [] at = "itemString" /\ piece.as \in {"other", "escaped", "open", "close", "comma"} ->
         "itemString"
    [] at = "itemEscape" /\ piece.as \in {"quote", "backslash"} -> "itemString"
    [] at = "after" /\ piece.as = "comma" -> "item"
    [] at = "after" /\ piece.as = "close" -> "end"
    [] OTHER -> "error"

ValidJson(out) == FoldLeft(JsonStep, "value", out) = "end"
=============================================================================
