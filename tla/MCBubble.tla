------------------------------ MODULE MCBubble ------------------------------
\* Messages of other clients: replies with a quote, a captioned file that is a reply, a file whose
\* URL no span marks, files without spans, stickers by reference, links.
EXTENDS Bubble

Foreigner(said, files, content) == [said |-> said, files |-> files, content |-> content]
Quote == "code"

MCForeign ==
  {Foreigner(<<Typed>>, <<>>, [Blank EXCEPT !.body = <<Quote, Typed>>, !.spans = <<Span("reply", 0, 1)>>]),
   Foreigner(<<Typed>>, <<"photo">>,
     [Blank EXCEPT !.body = <<Quote, Typed, "photo">>, !.oob = {"photo"},
                   !.spans = <<Span("reply", 0, 1), Span("oob", 2, 3)>>]),
   Foreigner(<<>>, <<"web">>, [Blank EXCEPT !.body = <<"web">>, !.oob = {"web"}]),
   Foreigner(<<Typed>>, <<"photo", "voice">>,
     [Blank EXCEPT !.body = <<Typed, "photo", "voice">>, !.sfs = <<"photo", "voice">>]),
   Foreigner(<<Typed>>, <<"photo">>,
     [Blank EXCEPT !.body = <<Typed, "photo">>, !.sfs = <<"photo">>,
                   !.spans = <<Span("sfs", 1, 2), Span("oob", 1, 2)>>]),
   Foreigner(<<Typed, Cid>>, <<>>, [Blank EXCEPT !.body = <<Typed, Code>>, !.img = TRUE]),
   Foreigner(<<Cid>>, <<>>, [Blank EXCEPT !.body = <<Code>>, !.img = TRUE]),
   Foreigner(<<Cid>>, <<>>,
     [Blank EXCEPT !.body = <<Quote, Code>>, !.img = TRUE, !.spans = <<Span("reply", 0, 1)>>]),
   Foreigner(<<"bare">>, <<>>, [Blank EXCEPT !.body = <<"bare">>, !.thread = TRUE])}
=============================================================================
