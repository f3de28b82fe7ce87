------------------------------- MODULE Bubble -------------------------------
(***************************************************************************)
(* One message from the composer to the bubble: it is sent and kept by its *)
(* sender, parsed by the one who gets it (Content), shown as text,         *)
(* picture, player, file card or tiles (messages.rs from_row), its media   *)
(* downloaded (session.rs prefetch_images, fetch_media) and, in the end,   *)
(* retracted.  Both ends run this program, or the sender is another        *)
(* client.                                                                 *)
(***************************************************************************)
EXTENDS Content

NoUrl == "none"

CONSTANTS
  Foreign,  \* messages of other clients: [said, files, content]
  MaxTaps   \* clicks on a download (bound)

ASSUME BubbleAssumption ==
  /\ NoUrl \notin Words /\ MaxTaps \in Nat
  /\ Foreign \subseteq [said : Seq(Words), files : Seq(Urls), content : Contents]

VARIABLES
  sent,      \* the message: what its author typed, its files, its content, and whether it is ours
  public,    \* it came to a public group
  kept,      \* the row of the author, when that is this program
  row,       \* the row of the reader, with its retracted mark
  item,      \* what the reader's bubble shows
  cache,     \* URLs in the reader's media cache
  fetching,  \* IMAGE_REQUESTED: URLs that are being downloaded
  tapped,    \* URLs that the reader asked for
  saved,     \* URLs saved to the downloads folder
  taps,
  failed     \* URLs whose download failed (history)

bubbleVars == <<sent, public, kept, row, item, cache, fetching, tapped, saved, taps, failed>>

NoRow == Row(<<>>, <<>>, FALSE)

-----------------------------------------------------------------------------
(* from_row.                                                                 *)

IsLink(body) == Len(body) = 1 /\ Head(body) \in Urls
IsCid(body) == body = <<Cid>>

\* webxdc_url, image_url or audio_url, and other_file_url of a body.
IsApp(r) ==
  /\ IsLink(r.body)
  /\ LET u == Head(r.body) IN u \in Apps \/ (u \in Encrypted \cap Plain /\ r.thread)
IsMedia(body) == IsLink(body) /\ Media(Head(body))
IsOtherFile(body) == IsLink(body) /\ Head(body) \in Encrypted /\ ~Media(Head(body))

\* Mutant: only the first of several files is downloaded.
RowMediaFirst(r) ==
  IF r.files # <<>> THEN {u \in {Head(r.files)} : Media(u)}
  ELSE IF IsMedia(r.body) THEN {Head(r.body)} ELSE {}

\* row_media_urls: what the prefetch downloads.
RowMedia(r) ==
  IF r.files # <<>> THEN {u \in ToSet(r.files) : Media(u)}
  ELSE IF IsMedia(r.body) THEN {Head(r.body)} ELSE {}

\* How a bubble shows: the words under it, the URL that it shows or offers and how, and its tiles.
Showing(text, as, url) == [text |-> text, as |-> as, url |-> url, tiles |-> {}]
Tile(u, have) == [url |-> u, here |-> u \in have]

\* A picture or a sound: itself when it is there, else a placeholder where no caption is.
Inline(u, caption, have) ==
  IF u \in have THEN Showing(caption, IF u \in Images THEN "image" ELSE "audio", u)
  ELSE Showing(caption, IF caption = <<>> THEN "placeholder" ELSE "caption", u)

\* Mutant: a button stays a button.
OnRequestAlways(r, caption, have) ==
  LET offered == IF r.files # <<>> THEN {Head(r.files)}
                 ELSE IF IsMedia(r.body) \/ IsOtherFile(r.body) THEN {Head(r.body)} ELSE {}
  IN IF offered = {} THEN Showing(r.body, "text", NoUrl)
     ELSE Showing(caption, "button", CHOOSE u \in offered : TRUE)

\* A public group: a picture or a sound that the reader has downloaded, else a button.
OnRequest(r, caption, have) ==
  LET offered == IF r.files # <<>> THEN {Head(r.files)}
                 ELSE IF IsMedia(r.body) \/ IsOtherFile(r.body) THEN {Head(r.body)} ELSE {}
  IN IF offered = {} THEN Showing(r.body, "text", NoUrl)
     ELSE LET u == CHOOSE u \in offered : TRUE
          IN IF Media(u) /\ u \in have THEN Inline(u, caption, have) ELSE Showing(caption, "button", u)

FromRow(r, auto, have) ==
  LET caption == IF r.files # <<>> THEN r.body ELSE <<>>
      source == IF r.files # <<>> THEN <<Head(r.files)>> ELSE r.body
  IN IF r.retracted THEN Showing(<<>>, "tombstone", NoUrl)
     ELSE IF Len(r.files) > 1
     THEN [Showing(r.body, "tiles", NoUrl) EXCEPT !.tiles = {Tile(u, have) : u \in ToSet(r.files)}]
     ELSE IF IsApp(r) THEN Showing(<<>>, "app", Head(r.body))
     ELSE IF IsCid(r.body) THEN Showing(<<>>, "sticker", NoUrl)
     ELSE IF ~auto THEN OnRequest(r, caption, have)
     ELSE IF IsMedia(source) THEN Inline(Head(source), caption, have)
     ELSE IF r.files # <<>> THEN Showing(caption, "card", Head(r.files))
     ELSE IF IsOtherFile(r.body) THEN Showing(<<>>, "card", Head(r.body))
     ELSE Showing(r.body, "text", NoUrl)

-----------------------------------------------------------------------------
(* What is sent.  This program uploads encrypted files only.                 *)

Said == {<<>>, <<Typed>>}

\* Another's message has a content of its own; ours are made by the send paths.
Message(said, files, content, row_) ==
  [said |-> said, files |-> files, content |-> content, kept |-> row_, ours |-> TRUE]

Ours ==
  {Message(t, <<>>, SendText(t), Row(t, <<>>, FALSE)) :
      t \in {<<Typed>>} \cup {<<u>> : u \in Urls \ Encrypted}}
  \cup {Message(t, <<u>>, SendFile(t, u), KeptFile(t, u)) : t \in Said, u \in Encrypted}
  \cup {Message(t, f, SendFiles(t, f), KeptFiles(t, f)) :
          t \in Said, f \in {<<u, v>> : u \in Encrypted, v \in Encrypted \ Plain}}
  \cup {Message(<<Cid>>, <<>>, SendSticker, Row(<<Cid>>, <<>>, FALSE))}
  \cup {Message(<<>>, <<u>>, SendApp(u), Row(<<u>>, <<>>, TRUE)) : u \in Encrypted \cap Apps}

Theirs == {[said |-> f.said, files |-> f.files, content |-> f.content, kept |-> NoRow, ours |-> FALSE] :
             f \in Foreign}

Live(r) == [body |-> r.body, files |-> r.files, thread |-> r.thread, retracted |-> FALSE]

\* The message is there: stored, and shown by the load that its event starts.  A sticker that is
\* not inline is fetched, if the sender answers.
BubbleInit ==
  \E m \in Ours \cup Theirs, p \in BOOLEAN, here \in BOOLEAN :
    /\ here \/ ~m.content.data
    /\ sent = [said |-> m.said, files |-> m.files, content |-> m.content, ours |-> m.ours]
    /\ public = p
    /\ kept = m.kept
    /\ row = Live(Parse(m.content, here))
    /\ item = Showing(<<>>, "nothing", NoUrl)
    /\ cache = {} /\ fetching = {} /\ tapped = {} /\ saved = {} /\ taps = 0
    /\ failed = {}

\* Media of a public group are downloaded on request only.
Automatic == ~public

\* prefetch_images, before the rows are built: media that is neither there nor on its way.
ToFetch == IF Automatic THEN RowMedia(row) \ (cache \cup fetching) ELSE {}

\* A load of the open chat.
LoadAgain ==
  /\ fetching' = fetching \cup ToFetch
  /\ item' = FromRow(row, Automatic, cache)
  /\ <<fetching', item'>> # <<fetching, item>>
  /\ UNCHANGED <<sent, public, kept, row, cache, tapped, saved, taps, failed>>

\* The download is written to the cache and the chat loaded again, or it failed.
Downloaded(u) ==
  /\ u \in fetching
  /\ fetching' = fetching \ {u}
  /\ \/ /\ cache' = cache \cup {u}
        /\ UNCHANGED failed
     \/ failed' = failed \cup {u} /\ UNCHANGED cache
  /\ UNCHANGED <<sent, public, kept, row, item, tapped, saved, taps>>

\* To the downloads folder, under a name of its own.
SaveFile(u) == saved' = saved \cup {u}

\* download_attachment: media goes to the cache and is shown in place, anything else is saved.
Tap(u) ==
  /\ \/ item.as \in {"button", "card"} /\ u = item.url
     \/ item.as = "tiles" /\ [url |-> u, here |-> FALSE] \in item.tiles
  /\ taps < MaxTaps /\ taps' = taps + 1
  /\ tapped' = tapped \cup {u}
  /\ IF Media(u)
     THEN fetching' = (IF u \in cache THEN fetching ELSE fetching \cup {u}) /\ UNCHANGED saved
     ELSE SaveFile(u) /\ UNCHANGED fetching
  /\ UNCHANGED <<sent, public, kept, row, item, cache, failed>>

\* The author retracts: the row loses its content and the cache the file that the old body named.
Retract ==
  /\ ~row.retracted
  /\ row' = [Live(NoRow) EXCEPT !.retracted = TRUE]
  /\ cache' = IF IsMedia(row.body) THEN cache \ {Head(row.body)} ELSE cache
  /\ UNCHANGED <<sent, public, kept, item, fetching, tapped, saved, taps, failed>>

BubbleNext == LoadAgain \/ Retract \/ \E u \in Urls : Downloaded(u) \/ Tap(u)

BubbleSpec == BubbleInit /\ [][BubbleNext]_bubbleVars

-----------------------------------------------------------------------------
(* Properties.                                                               *)

\* The body's offsets are not moved before a file's span is cut, and every file's URL is marked.
Marked(c) ==
  /\ c.oob = {} \/ \E i \in DOMAIN c.spans : c.spans[i].of = "oob"
  /\ c.sfs = <<>> => \A i, j \in DOMAIN c.spans : c.spans[i].of = "reply" => c.spans[j].of = "reply"

\* Both ends show the same bubble: the row that the reader makes of our content is the row that we
\* kept; and what its author typed is under the bubble of anyone's message with files, and nothing
\* else, unless offsets were moved or a URL is marked nowhere (send_file, send_files, send_sticker,
\* persist_file_message against process_payload, strip_fallback_spans, strip_file_urls).
SameBothEnds ==
  ~row.retracted =>
    /\ sent.ours => row = Live(kept)
    /\ row.files # <<>> /\ Marked(sent.content) => row.body = sent.said

\* A placeholder or an empty tile is never the end in a private chat: what it stands for is being
\* downloaded, is there for the next load, or could not be had (row_media_urls against from_row).
PlaceholderIsFetched ==
  ~public =>
    LET open == {t.url : t \in {t \in item.tiles : ~t.here /\ Media(t.url)}}
                \cup {u \in Urls : u = item.url /\ item.as \in {"placeholder", "caption"}}
    IN open \subseteq fetching \cup cache \cup failed \cup (IF row.retracted THEN Urls ELSE {})

\* What the reader clicks on in a public group is then shown in its place, a picture, a sound or a
\* tile (download_attachment against from_row).
TapShows ==
  fetching = {} /\ ~row.retracted /\ item = FromRow(row, ~public, cache) =>
    \A u \in tapped \ failed : Media(u) =>
      (item.as \in {"image", "audio"} /\ item.url = u) \/ Tile(u, {u}) \in item.tiles

=============================================================================
