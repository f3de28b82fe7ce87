------------------------------ MODULE Content -------------------------------
(***************************************************************************)
(* What a message says: the stanza content that each send path builds      *)
(* (send_text_stanza, send_file, send_files, send_sticker,                 *)
(* send_webxdc_file), what process_payload makes of a content, and what    *)
(* persist_file_message keeps of our own (messaging.rs, bob.rs).           *)
(*                                                                         *)
(* A body is a sequence of words; a URL, a sticker's cid and its shortcode *)
(* are words.  A fallback's span counts words where the code counts code   *)
(* points, from 0, its end excluded.  White space is left out.             *)
(***************************************************************************)
EXTENDS Naturals, Sequences, SequencesExt, FiniteSetsExt

CONSTANTS
  Images, Audios, \* URLs with the extension of an image, of a sound,
  Apps,           \* with .xdc,
  Plain,          \* with no extension,
  Others,         \* with any other
  Encrypted       \* the aesgcm:// ones, an upload of an encrypted file

Urls == Images \cup Audios \cup Apps \cup Plain \cup Others

\* A word of text, a sticker's reference and the shortcode that stands for it.
Typed == "typed"
Cid == "cid"
Code == "code"
Words == Urls \cup {Typed, Cid, Code}

ASSUME ContentAssumption ==
  /\ Urls \cap {Typed, Cid, Code} = {}
  /\ Encrypted \subseteq Urls

Media(u) == u \in Images \cup Audios

\* A content: the body's words, the fallback spans in their order, the URL of jabber:x:oob, the
\* files of file-sharing elements, an <img> with a shortcode, the sticker's bytes and a thread.
Blank == [body |-> <<>>, spans |-> <<>>, oob |-> {}, sfs |-> <<>>, img |-> FALSE, data |-> FALSE,
          thread |-> FALSE]

Span(of, from, to) == [of |-> of, from |-> from, to |-> to]

\* The contents that any client may send: one jabber:x:oob at most is looked at.
Contents ==
  [body : Seq(Words), spans : Seq([of : {"reply", "oob", "sfs"}, from : Nat, to : Nat]),
   oob : {{}} \cup {{u} : u \in Urls}, sfs : Seq(Urls), img : BOOLEAN, data : BOOLEAN, thread : BOOLEAN]

Drop(s, from, to) == SubSeq(s, 1, from) \o SubSeq(s, to + 1, Len(s))

-----------------------------------------------------------------------------
(* The send paths.  A row is [body, files, thread].                          *)

Row(body, files, thread) == [body |-> body, files |-> files, thread |-> thread]

SendText(text) == [Blank EXCEPT !.body = text]

\* Mutant of SendFile: the span ends where the URL begins.
SendFileShort(caption, u) ==
  IF caption = <<>> THEN SendText(<<u>>)
  ELSE [Blank EXCEPT !.body = Append(caption, u), !.oob = {u},
                     !.spans = <<Span("oob", Len(caption), Len(caption))>>]

\* send_file: without a caption the URL is the body; with one it follows it, marked.
SendFile(caption, u) ==
  IF caption = <<>> THEN SendText(<<u>>)
  ELSE [Blank EXCEPT !.body = Append(caption, u), !.oob = {u},
                     !.spans = <<Span("oob", Len(caption), Len(caption) + 1)>>]

KeptFile(caption, u) == IF caption = <<>> THEN Row(<<u>>, <<>>, FALSE) ELSE Row(caption, <<u>>, FALSE)

\* send_files: every URL is marked for both namespaces and described by an element of its own.
SendFiles(caption, files) ==
  LET at(i) == Len(caption) + i - 1 IN
  [Blank EXCEPT !.body = caption \o files, !.sfs = files,
     !.spans = FlattenSeq([i \in DOMAIN files |-> <<Span("oob", at(i), at(i) + 1),
                                                   Span("sfs", at(i), at(i) + 1)>>])]

KeptFiles(caption, files) == Row(caption, files, FALSE)

\* send_plain_sticker_stanza: the reference and the bytes.
SendSticker == [Blank EXCEPT !.body = <<Cid>>, !.img = TRUE, !.data = TRUE]

SendApp(u) == [Blank EXCEPT !.body = <<u>>, !.thread = TRUE]

-----------------------------------------------------------------------------
(* process_payload.                                                          *)

\* is_shortcode_only, of an empty body too.
ShortcodeOnly(body) == \A i \in DOMAIN body : body[i] = Code

\* Stickers: the body of a message that is one becomes its reference; in other bodies the reference
\* takes the place of the first shortcode, or comes last if it is not there yet.
WithSticker(c, here) ==
  IF ~here \/ ~(c.img \/ c.data) THEN c.body
  ELSE IF ShortcodeOnly(c.body) \/ Head(c.body) = Cid THEN <<Cid>>
  ELSE IF c.img /\ Contains(c.body, Code)
  THEN [c.body EXCEPT ![SelectInSeq(c.body, LAMBDA w : w = Code)] = Cid]
  ELSE IF Contains(c.body, Cid) THEN c.body ELSE Append(c.body, Cid)

Fits(s, body) == s.from <= s.to /\ s.to <= Len(body)

\* strip_fallback_for: the first span of the namespace that fits the body as it is now.
StripFor(c, body, of) ==
  LET fit == {i \in DOMAIN c.spans : c.spans[i].of = of /\ Fits(c.spans[i], body)}
  IN IF fit = {} THEN body ELSE Drop(body, c.spans[Min(fit)].from, c.spans[Min(fit)].to)

\* The words at some places, in their order.
WordsAt(body, keep) ==
  [n \in 1..Cardinality(keep) |->
     body[CHOOSE i \in keep : Cardinality({j \in keep : j <= i}) = n]]

\* strip_fallback_spans: every span of both namespaces that fits, merged and cut at once.
StripSpans(c, body) ==
  LET cut(i) == \E s \in ToSet(c.spans) :
                  s.of # "reply" /\ Fits(s, body) /\ s.from < i /\ i <= s.to
  IN WordsAt(body, {i \in DOMAIN body : ~cut(i)})

\* strip_file_urls: what is left of the files' own URLs.
StripUrls(body, files) == WordsAt(body, {i \in DOMAIN body : ~Contains(files, body[i])})

\* The row of an incoming content; here: the sticker's bytes are in the cache or could be fetched.
Parse(c, here) ==
  LET body == StripFor(c, WithSticker(c, here), "reply") IN
  IF c.sfs # <<>> THEN Row(StripUrls(StripSpans(c, body), c.sfs), c.sfs, c.thread)
  ELSE IF c.oob # {} THEN Row(StripFor(c, body, "oob"), SetToSeq(c.oob), c.thread)
  ELSE Row(body, <<>>, c.thread)
=============================================================================
