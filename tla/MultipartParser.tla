--------------------------- MODULE MultipartParser ---------------------------
(***************************************************************************)
(* MultipartParser.cpp: the fields of a multipart/form-data body.          *)
(***************************************************************************)
EXTENDS RequestParser

\* The boundary runs to the end of the header; of a quoted one the first and
\* the last symbol are taken off.
Boundary(contentType) ==
  LET boundary == From(contentType, find(contentType, <<"boundary=">>, 1) + 1)
  IN  IF boundary # <<>> /\ boundary[1] = "\"" THEN SubSeq(boundary, 2, Len(boundary) - 1)
      ELSE boundary

\* A mutant: the line end before the next boundary stays.
MutStripLineEnds(content) == content

StripLineEnds(content) ==
  LET other == {i \in DOMAIN content : content[i] # CRLF}
  IN  IF other = {} THEN <<>> ELSE SubSeq(content, 1, Max(other))

\* A part with no blank line in it is no field.
Fields(part) ==
  LET headerEnd == find(part, <<CRLF, CRLF>>, 1)
  IN  IF headerEnd = 0 THEN <<>>
      ELSE <<[headers |-> HeaderMap(split(SubSeq(part, 1, headerEnd - 1), CRLF)),
              content |-> StripLineEnds(From(part, headerEnd + 2))]>>

\* What parse() leaves in result; empty is its return value false, on which
\* getFormData() throws.  The headers of a field are left as the map its KVList
\* is built from.
parse(request) ==
  LET contentType == CHOOSE v \in getHeader(request, <<"Content-Type">>) : TRUE
      body == request.body
      delimiter == <<"-", "-">> \o Boundary(contentType)
      Skip(i) == IF i <= Len(body) /\ body[i] = CRLF THEN i + 1 ELSE i
      result[pos \in 1..(Len(body) + 1)] ==
        LET found == find(body, delimiter, pos)
            after == found + Len(delimiter)
            start == Skip(after)
            end == find(body, delimiter, start)
        IN  IF found = 0 \/ SubSeq(body, after, after + 1) = <<"-", "-">> \/ end = 0 THEN <<>>
            ELSE Fields(SubSeq(body, start, end - 1)) \o result[end]
  IN  IF \/ getHeader(request, <<"Content-Type">>) = {}
         \/ find(contentType, <<"multipart/form-data">>, 1) = 0
         \/ find(contentType, <<"boundary=">>, 1) = 0
      THEN {} ELSE {result[1]}

=============================================================================
