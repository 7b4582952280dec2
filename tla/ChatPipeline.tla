----------------------------- MODULE ChatPipeline -----------------------------
(***************************************************************************)
(* ChatPipeline: what is left of a chat message when it is read aloud.     *)
(*                                                                         *)
(* A text is a sequence of runs, the pieces between its spaces, and a run  *)
(* is a sequence of units.  A unit is a group of characters that the       *)
(* filters take together: letters ("word", the emote "pog", the profane    *)
(* "curse" and its replacement "mild", "www"), "digit", "smile" for an     *)
(* emoji, the configured symbol "$", the characters "@", ":", "_" and "!", *)
(* ".com" and ".com/x".  So the units "www", ".com" in a row are a link,   *)
(* and become one when the symbol between them is stripped.                *)
(***************************************************************************)
EXTENDS Naturals, Sequences, SequencesExt

CONSTANTS
  Texts,     \* messages as they come
  Settings,  \* choices of settings
  Users,     \* senders; "" is an empty login
  Ignored    \* the ignore list

VARIABLES
  message,  \* [text, user, heard]: heard is the language the detectors make of it
  settings, \* TwitchTtsSettings in use
  result    \* ProcessedChatMessage, <<>> before it is made

chatVars == <<message, settings, result>>

Letters == {"word", "pog", "curse", "mild", "www"}
NameUnits == Letters \cup {"digit", "_"}
EmoteCodes == {<<"pog">>, <<"digit">>}  \* a channel may have an emote that is a number
Fallback == "en"
Languages == {"en", "ru", "und"}

Tidy(text) == SelectSeq(text, LAMBDA run : run # <<>>)
EachRun(Op(_), text) == Tidy([i \in DOMAIN text |-> Op(text[i])])
Strip(unwanted, text) == EachRun(LAMBDA run : SelectSeq(run, LAMBDA u : u \notin unwanted), text)
Units(text) == FlattenSeq(text)

-----------------------------------------------------------------------------
(* The filters, one after the other *)

\* is_plain_decimal_token: digits between punctuation
Decimal(run) ==
  \E i \in DOMAIN run : \E j \in i..Len(run) :
    /\ \A k \in i..j : run[k] = "digit"
    /\ \A k \in DOMAIN run \ (i..j) : run[k] \in {"!", ":"}

\* remove_emotes_from_text
KnownEmote(run) == ~Decimal(run) /\ run \in EmoteCodes

WithoutEmotes(text) == SelectSeq(text, LAMBDA run : ~KnownEmote(run))

\* Where a link with a scheme begins in a run, after its end when there is none.
SchemeAt(run) ==
  LET starts == {i \in 1..(Len(run) - 1) : run[i] = "www" /\ run[i + 1] \in {".com", ".com/x"}}
  IN IF starts = {} THEN Len(run) + 1 ELSE CHOOSE i \in starts : \A j \in starts : i <= j

LooksLikeUrl(run) == ".com/x" \in ToSet(run) \/ SchemeAt(run) = 1

\* strip_links_from_text
WithoutLinks(text) ==
  SelectSeq(EachRun(LAMBDA run : SubSeq(run, 1, SchemeAt(run) - 1), text),
            LAMBDA run : ~LooksLikeUrl(run))

\* strip_leading_speaker_label
Label(run) == run # <<>> /\ ToSet(run) \subseteq NameUnits /\ ToSet(run) \cap Letters # {}

WithoutLabel(text) ==
  IF text = <<>> THEN text
  ELSE LET first == text[1]
           colon == SelectInSeq(first, LAMBDA u : u = ":")
       IN IF colon # 0
          THEN IF Label(SubSeq(first, 1, colon - 1))
               THEN Tidy(<<SubSeq(first, colon + 1, Len(first))>> \o Tail(text))
               ELSE text
          ELSE IF Len(text) > 1 /\ text[2][1] = ":" /\ Label(first)
               THEN Tidy(<<Tail(text[2])>> \o SubSeq(text, 3, Len(text)))
               ELSE text

\* strip_twitch_mentions
WithoutMention(run) ==
  FoldLeft(LAMBDA done, u :
             IF u = "@" THEN [done EXCEPT !.eats = TRUE]
             ELSE IF done.eats /\ u \in NameUnits THEN done
             ELSE [left |-> Append(done.left, u), eats |-> FALSE],
           [left |-> <<>>, eats |-> FALSE], run).left

WithoutMentions(text) == EachRun(WithoutMention, text)

\* replace_underscores_with_spaces
SplitAtUnderscores(run) ==
  FoldLeft(LAMBDA pieces, u : IF u = "_" THEN Append(pieces, <<>>)
                              ELSE [pieces EXCEPT ![Len(pieces)] = Append(@, u)],
           <<<<>>>>, run)

WithoutUnderscores(text) == Tidy(FlattenSeq([i \in DOMAIN text |-> SplitAtUnderscores(text[i])]))

\* apply_builtin_profanity, whole words only
Mild(run) ==
  [i \in DOMAIN run |->
     IF run[i] = "curse" /\ (i > 1 => run[i - 1] \notin NameUnits)
                         /\ (i < Len(run) => run[i + 1] \notin NameUnits)
     THEN "mild" ELSE run[i]]

Meaningful(text) ==
  LET words == WithoutMentions(WithoutLabel(WithoutLinks(text)))
  IN /\ words # <<>>
     /\ \/ \A i \in DOMAIN words : Decimal(words[i])
        \/ ToSet(Units(words)) \cap (Letters \cup {".com", ".com/x"}) # {}

When(wanted, new, old) == IF wanted THEN new ELSE old

\* Links that came about when something between their characters was taken away.
NoSecondPass(text) == text

SecondPass(text) == When(settings.links, WithoutLinks(text), text)

Cleaned(text) ==
  LET emotes == LET plain == When(settings.emoji, Strip({"smile"}, text), text)
                IN When(settings.emotes, WithoutEmotes(plain), plain)
      links == When(settings.links, WithoutLinks(emotes), emotes)
      names == WithoutMentions(WithoutLabel(links))
      symbols == Strip(settings.symbols, names)
      spaces == When(settings.underscores, WithoutUnderscores(symbols), symbols)
      again == SecondPass(spaces)
  IN When(settings.mild, EachRun(Mild, again), again)

-----------------------------------------------------------------------------
(* The decision *)

\* filter_skip_reason
Refused ==
  \/ message.text # <<>> /\ message.text[1][1] = "!" /\ settings.commands
  \/ message.user = "" \/ message.user \in Ignored

\* Characters of a text, with one for each unit and each space between two runs.
Size(text) == Len(Units(text)) + (IF text = <<>> THEN 0 ELSE Len(text) - 1)

\* resolve_message_language
Language == IF settings.detects /\ message.heard # "und" THEN message.heard ELSE Fallback

Spoken(clean) == [speakable |-> TRUE, text |-> clean, language |-> Language]
Skipped(clean) == [speakable |-> FALSE, text |-> clean, language |-> Language]

\* process_chat_message; a message that is refused early keeps its text.
Processed ==
  LET clean == Cleaned(message.text)
  IN IF Refused \/ ~Meaningful(clean) \/ Size(clean) \notin settings.sizes
     THEN [Skipped(message.text) EXCEPT !.language = Fallback]
     ELSE IF settings.detects /\ settings.enabled # {} /\ Language \notin settings.enabled
          THEN Skipped(clean)
          ELSE Spoken(clean)

ChatInit ==
  /\ message \in [text : Texts, user : Users, heard : Languages]
  /\ settings \in Settings
  /\ result = <<>>

Process ==
  /\ result = <<>> /\ result' = Processed
  /\ UNCHANGED <<message, settings>>

ChatNext == Process

ChatSpec == ChatInit /\ [][ChatNext]_chatVars

-----------------------------------------------------------------------------
(* Properties *)

\* What is read aloud has no link in it when links are to be left out, also none that only came about
\* when a mention, a symbol or an emoji in the middle was taken away; it is not a command, not of a
\* sender on the ignore list, and in a language that is enabled.  And the listener misses nothing:
\* words and numbers that stand by themselves, behind the first run, which may be a label, are all
\* read, in their order.
ReadAsMeant ==
  result # <<>> /\ result.speakable
    => /\ settings.links => \A i \in DOMAIN result.text : SchemeAt(result.text[i]) > Len(result.text[i])
                                                          /\ ~LooksLikeUrl(result.text[i])
       /\ ~Refused
       /\ settings.detects /\ settings.enabled # {} => result.language \in settings.enabled
       /\ LET Plain(text) == SelectSeq(text, LAMBDA run : run \in {<<"word">>, <<"digit">>})
              Unheard(meant, said) ==
                FoldLeft(LAMBDA rest, run : IF rest # <<>> /\ Head(rest) = run THEN Tail(rest) ELSE rest,
                         meant, said)
          IN Unheard(Plain(Tail(message.text)), Plain(result.text)) = <<>>
=============================================================================
