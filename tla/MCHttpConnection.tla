-------------------------- MODULE MCHttpConnection --------------------------
(* Clients that begin a request, or not, and go on with lines and stray    *)
(* pieces of lines in any order.                                           *)
EXTENDS HttpConnection

CONSTANT MaxPieces

Bytes == INSTANCE HttpHandler WITH Messages <- {}

Line(s) == s \o <<Bytes!CR, Bytes!LF>>

Pieces == {Line(<<Bytes!Request>>), Line(<<Bytes!Length(2)>>), Line(<<>>),
           <<Bytes!Other>>, <<Bytes!CR>>, <<Bytes!LF>>}

Heads ==
  LET request  == Line(<<Bytes!Request>>)
      longer   == request \o Line(<<Bytes!Length(2)>>)
      negative == request \o Line(<<Bytes!Length(-1)>>) \o Line(<<Bytes!Field>>)
  IN {<<>>, request, longer, longer \o Line(<<>>), negative}

MCMessages == {h \o FlattenSeq(p) : h \in Heads, p \in [1..MaxPieces -> Pieces]}
=============================================================================
