---------------------------- MODULE MessageFormat ----------------------------
(***************************************************************************)
(* How cdiag turns an event packet into a line of text: the message is     *)
(* resolved (cdiag/cdiag/msgresolver.c), the variables are bound           *)
(* (formatter.c) and the template is expanded into a buffer                *)
(* (formatstr.c).  A text is a sequence of characters.                     *)
(***************************************************************************)
EXTENDS Integers, Sequences, SequencesExt, FiniteSetsExt

CONSTANTS
    Alnum,       \* the characters iswalnum accepts
    Words,       \* words and literals that templates are put together from
    Names,       \* names of CdiagsEventPacketVariables, in table order
    Packets,     \* event packets: [message, module, code]; <<>> is offset 0
    Texts,       \* Texts[source][code]: the message, <<>> if there is none
    BufferSizes,
    MaxTokens

ASSUME FormatAssumption ==
    /\ {"%", " ", "\n", "0"} \cap Alnum \subseteq {"0"}
    /\ \A i \in DOMAIN Names : Names[i] \in Seq(Alnum) \ {<<>>}
    /\ BufferSizes \subseteq Nat \ {0}

VARIABLE line      \* the last call of CdiagsFormat and what it returned

Null == <<"(", "n", "u", "l", "l", ")">>     \* what %s prints for NULL

-----------------------------------------------------------------------------
\* Resolving.

\* CdiagsFormatMessage (FormatMessage is external): the text with its
\* terminator must fit.
FormatMessage(source, code, size) ==
    LET text == Texts[source][code]
    IN  CASE text = <<>>       -> "missing"
          [] Len(text) >= size -> "too_small"
          [] OTHER             -> "ok"

\* CdiagsStripNewlines: the loop that looks for trailing spaces stops at the
\* last space, wherever it is.
StripNewlines(text) ==
    LET spaced == [i \in DOMAIN text |-> IF text[i] = "\n" THEN " " ELSE text[i]]
        spaces == {i \in DOMAIN spaced : spaced[i] = " "}
    IN  IF spaces = {} THEN spaced ELSE SubSeq(spaced, 1, Max(spaces) - 1)

\* One source of messages: the search goes on while nothing was found.
ResolveStep(found, source, code, size) ==
    IF found.hr # "missing" THEN found
    ELSE [hr |-> FormatMessage(source, code, size), source |-> source]

\* CdiagsResolveMessage: the system first, then the registered DLLs in order.
ResolveMessage(sources, code, flags, size) ==
    LET order == (IF "no_system" \in flags THEN <<>> ELSE <<"system">>) \o sources
        found == FoldLeft(LAMBDA f, s : ResolveStep(f, s, code, size),
                          [hr |-> "missing", source |-> "none"], order)
        text  == IF found.hr = "ok" THEN Texts[found.source][code] ELSE <<>>
    IN  CASE found.hr = "ok" ->
               [hr |-> "ok", text |-> IF "strip" \in flags THEN StripNewlines(text) ELSE text]
          [] found.hr = "missing" /\ "fallback" \in flags /\ size > 2 ->
               [hr |-> "ok", text |-> <<"0", code>>]       \* 0x%08X
          [] found.hr = "missing" /\ "fallback" \notin flags ->
               [hr |-> "unknown_message", text |-> <<>>]
          [] OTHER -> [hr |-> "too_small", text |-> <<>>]

-----------------------------------------------------------------------------
\* Binding.  A field is a direct value, or an offset, or an offset within the
\* debug information that the packet may lack; a zero offset binds NULL.

ResolverBufferSize == 6      \* stands for ResolverBuffer[ 1024 ]

ResolvedOf(packet, sources, flags) ==
    IF packet.message = <<>> /\ sources # "no_resolver"
      THEN ResolveMessage(sources, packet.code, flags, ResolverBufferSize)
      ELSE [hr |-> "not_resolved", text |-> <<>>]

\* CdiagsFormat: the array of bindings for the variables Message, Code, Module.
BindingsOf(packet, sources, flags) ==
    LET resolved == ResolvedOf(packet, sources, flags)
        string(s) == IF s = <<>> THEN Null ELSE s
    IN  <<IF resolved.hr = "ok" THEN resolved.text ELSE string(packet.message),
          <<packet.code>>,
          string(packet.module)>>

-----------------------------------------------------------------------------
\* Expanding.

\* CdiagsCompareString: only the characters of the word are compared, so a word
\* stands for the first variable it is a prefix of.  An empty word is compared
\* with the rest of the template, which no name matches.
NamesVariable(word, i) == word # <<>> /\ IsPrefix(word, Names[i])

\* CdiagsGetVariableBindingIndex
BindingIndex(word) ==
    LET matches == {i \in DOMAIN Names : NamesVariable(word, i)}
    IN  IF matches = {} THEN 0 ELSE Min(matches)

\* Faulty variant: no room is left for the terminator.
HandleVariableUnterminated(s, template, end, bindings, size) ==
    LET index == BindingIndex(SubSeq(template, s.name, end - 1))
    IN  IF index = 0 \/ Len(bindings[index]) > size - Len(s.out) THEN s
        ELSE [s EXCEPT !.out = @ \o bindings[index]]

\* CdiagsHandleVariable: _snwprintf fills the room, and fails if the value is
\* longer; an unknown variable is dropped.
HandleVariable(s, template, end, bindings, size) ==
    LET index == BindingIndex(SubSeq(template, s.name, end - 1))
        room  == size - 1 - Len(s.out)
        value == bindings[index]
    IN  CASE index = 0          -> s
          [] Len(value) <= room -> [s EXCEPT !.out = @ \o value]
          [] OTHER              -> [s EXCEPT !.out = @ \o SubSeq(value, 1, room), !.hr = "too_small"]

\* One turn of the loop of CdiagpFormatString.  After %% the name still points
\* at the second percent sign, and no variable has such a name.
FormatChar(s, template, cur, bindings, size) ==
    LET char    == template[cur]
        handled == HandleVariable(s, template, cur, bindings, size)
        literal(r) == IF r.hr = "ok" THEN [r EXCEPT !.out = Append(@, char)] ELSE r
    IN  CASE s.hr # "ok"             -> s
          [] s.hr = "ok" /\ Len(s.out) >= size - 1 -> [s EXCEPT !.hr = "too_small"]
          [] s.hr = "ok" /\ Len(s.out) < size - 1 ->
               CASE char = "%" /\ s.name = cur ->
                      literal([s EXCEPT !.inVariable = FALSE])
                 [] char = "%" /\ s.name # cur ->
                      [(IF s.name = 0 THEN s ELSE handled) EXCEPT !.inVariable = TRUE, !.name = cur + 1]
                 [] char # "%" /\ s.inVariable /\ char \notin Alnum ->
                      literal([handled EXCEPT !.inVariable = FALSE, !.name = 0])
                 [] char # "%" /\ s.inVariable /\ char \in Alnum -> s
                 [] OTHER -> literal(s)

\* CdiagpFormatString
FormatString(template, bindings, size) ==
    LET start == [hr |-> "ok", out |-> <<>>, inVariable |-> FALSE, name |-> 0]
        after == FoldLeft(LAMBDA s, cur : FormatChar(s, template, cur, bindings, size),
                          start, [i \in DOMAIN template |-> i])
        last  == IF after.inVariable THEN HandleVariable(after, template, Len(template) + 1, bindings, size)
                 ELSE after
    IN  CASE after.hr # "ok"         -> after
          [] Len(after.out) > size - 1 -> [after EXCEPT !.hr = "too_small"]
          [] OTHER                   -> last

-----------------------------------------------------------------------------
\* The caller's side: a template is put together from tokens.

Tokens ==
    {[kind |-> "escape", word |-> <<>>]} \cup
    {[kind |-> "variable", word |-> w] : w \in {v \in Words : \A i \in DOMAIN v : v[i] \in Alnum}} \cup
    {[kind |-> "literal", word |-> w] : w \in Words \ {<<>>}}

Spelling(token) ==
    CASE token.kind = "escape"   -> <<"%", "%">>
      [] token.kind = "variable" -> <<"%">> \o token.word
      [] OTHER                   -> token.word

\* The spelling of two tokens can be read in one way only.
Separable(t, u) ==
    t.kind = "variable" => /\ t.word = <<>> => Spelling(u)[1] # "%"
                           /\ Spelling(u)[1] \notin Alnum

Templates ==
    {t \in UNION {[1 .. n -> Tokens] : n \in 1 .. MaxTokens} :
       \A i \in 1 .. Len(t) - 1 : Separable(t[i], t[i + 1])}

NoLine == [tokens |-> <<>>, sources |-> <<>>, flags |-> {}, packet |-> <<>>, size |-> 0, reply |-> <<>>]

FormatInit == line = NoLine

\* CdiagsFormat
Format(tokens, sources, flags, packet, size) ==
    LET template == FlattenSeq([i \in DOMAIN tokens |-> Spelling(tokens[i])])
    IN  line' = [tokens |-> tokens, sources |-> sources, flags |-> flags, packet |-> packet, size |-> size,
                 reply |-> FormatString(template, BindingsOf(packet, sources, flags), size)]

FormatNext ==
    \/ /\ line = NoLine
       /\ \E tokens \in Templates, packet \in Packets, size \in BufferSizes,
             sources \in {"no_resolver", <<>>, <<"d1">>, <<"d1", "d2">>},
             flags \in SUBSET {"no_system", "fallback", "strip"} :
            /\ sources = "no_resolver" => flags = {}      \* CdiagCreateFormatter
            /\ Len(tokens) > 1 => sources = "no_resolver"
            /\ Format(tokens, sources, flags, packet, size)
    \/ line # NoLine /\ line' = NoLine

-----------------------------------------------------------------------------
\* What a line should be.

\* The message: the packet's own, or that of the first source that has one if
\* it fits the resolver's buffer, or the code where the caller asked for it.
\* With "strip" line ends are spaces, and the text is cut as cut says.
MessageOf(l, cut(_)) ==
    LET all    == (IF "no_system" \in l.flags THEN <<>> ELSE <<"system">>) \o l.sources
        having == {i \in DOMAIN all : Texts[all[i]][l.packet.code] # <<>>}
        text   == Texts[all[Min(having)]][l.packet.code]
    IN  CASE l.packet.message # <<>>         -> {l.packet.message}
          [] l.packet.message = <<>> /\ l.sources = "no_resolver" -> {Null}
          [] l.packet.message = <<>> /\ l.sources # "no_resolver" ->
               IF having = {} THEN {IF "fallback" \in l.flags THEN <<"0", l.packet.code>> ELSE Null}
               ELSE IF Len(text) >= ResolverBufferSize THEN {Null}
               ELSE IF "strip" \in l.flags THEN cut(ReplaceAll(text, "\n", " "))
               ELSE {text}

\* The text before its last space: what is cut off has one space, in front.
LastWordCut(text) ==
    IF " " \notin Range(text) THEN {text}
    ELSE {p \in Prefixes(text) : \E rest \in Suffixes(text) : p \o <<" ">> \o rest = text /\ " " \notin Range(rest)}

\* Nothing but spaces is cut off at the end.
SpacesCut(text) ==
    {p \in Prefixes(text) : \A i \in Len(p) + 1 .. Len(text) : text[i] = " "}

Abbreviates(word, name) == word # <<>> /\ \E rest \in Suffixes(name) : word \o rest = name
Spells(word, name)      == word = name

\* The template with each variable replaced by the first one that is meant.
Expansion(l, message, means(_, _)) ==
    LET value(word) ==
          LET named == {i \in DOMAIN Names : means(word, Names[i])}
          IN  IF named = {} THEN <<>>
              ELSE <<message, <<l.packet.code>>,
                     IF l.packet.module = <<>> THEN Null ELSE l.packet.module>>[Min(named)]
        part(token) == CASE token.kind = "escape"   -> <<"%">>
                         [] token.kind = "literal"  -> token.word
                         [] token.kind = "variable" -> value(token.word)
    IN  FlattenSeq([i \in DOMAIN l.tokens |-> part(l.tokens[i])])

\* CdiagsFormat never writes past the buffer; what it returns with S_OK is the
\* template with every variable replaced by the first variable that the word
\* abbreviates, %% by a percent sign and other variables by nothing, and
\* terminated; a message that is to be stripped ends before its last space; it
\* fails only if there is hardly room, and always if there is none
\* (cdiag/cdiag/formatstr.c, formatter.c, msgresolver.c).  Where this is not what
\* the documents say, the two properties that follow say what they do.
FormatCorrect ==
    line # NoLine =>
      \E message \in MessageOf(line, LastWordCut) :
        LET full == Expansion(line, message, Abbreviates)
        IN  /\ Len(line.reply.out) <= line.size
            /\ line.reply.hr = "ok" => line.reply.out = full /\ Len(full) < line.size
            /\ line.reply.hr # "ok" => Len(full) >= line.size - 1

\* "Strip trailing spaces" (msgresolver.c); "any CRs and LFs are replaced by
\* spaces" (cdiag.h): a message that is stripped loses spaces at its end only.
StripKeepsText ==
    line # NoLine /\ line.reply.hr = "ok" =>
      \E message \in MessageOf(line, SpacesCut) : line.reply.out = Expansion(line, message, Abbreviates)

\* "Unknown variables (%Bar) evaluate to ''" (cdiag.h): a variable whose word is
\* none of the names contributes nothing to the line.
UnknownIsEmpty ==
    line # NoLine /\ line.reply.hr = "ok" =>
      \E message \in MessageOf(line, LastWordCut) : line.reply.out = Expansion(line, message, Spells)
==============================================================================
