------------------------------ MODULE FormUpload ------------------------------
(***************************************************************************)
(* One file upload in http_server/AAAAAAAAAAaa: the reading loop and the   *)
(* saving loop of the POST branch of handle_client, and RequestParser's    *)
(* parse, which scans the first record for headers.                        *)
(*                                                                         *)
(* The client sends a well-formed multipart/form-data body in records it   *)
(* cuts as it likes; the header of the request comes whole in the first.   *)
(* The body is a sequence of tokens, each of them one unit long:           *)
(*   Boundary   "--X\r\n"                                                  *)
(*   Closing    "--X--\r\n"                                                *)
(*   Part(f)    the lines of a part's header, with filename f if not None  *)
(*   Length(n)  a line "Content-Length: n", in a part's header or its data *)
(*   Multipart  a line "Content-Type: ...; boundary=Y" in the data, of a   *)
(*              form that has no line "--Y"                                *)
(*   Blank      the empty line that ends a part's header                   *)
(*   Data       any other piece of a file                                  *)
(*   Crlf       the line break before a boundary, or one in a file         *)
(* getline leaves the '\r' at the end of the boundary the server looks     *)
(* for, so that it is found in a Boundary and not in a Closing.            *)
(***************************************************************************)
EXTENDS Naturals, Sequences, SequencesExt

CONSTANTS
    HeaderSize,     \* length of the request's header
    Requests,       \* what a client may send, see RequestsAssumption
    None            \* no filename; no Content-Length

Token(kind, arg) == [kind |-> kind, arg |-> arg]

Boundary  == Token("boundary", None)
Closing   == Token("closing", None)
Part(f)   == Token("part", f)
Length(n) == Token("length", n)
Multipart == Token("multipart", None)
Blank     == Token("blank", None)
Data      == Token("data", None)
Crlf      == Token("crlf", None)

(* What the data of a part may consist of. *)
Content == [kind : {"length", "multipart", "blank", "data", "crlf"}, arg : Nat \cup {None}]

(* A request: does its header announce the length of the body; its parts,
   each with a filename, a Content-Length of its own, and the data. *)
ASSUME RequestsAssumption ==
    /\ HeaderSize \in Nat \ {0}
    /\ \A r \in Requests :
          /\ r.announced \in BOOLEAN
          /\ r.parts \in Seq(Range(r.parts))
          /\ \A i \in DOMAIN r.parts : r.parts[i].data \in Seq(Content)

PartTokens(part) ==
    <<Boundary, Part(part.filename)>>
    \o (IF part.length = None THEN <<>> ELSE <<Length(part.length)>>)
    \o <<Blank>> \o part.data \o <<Crlf>>

(* The tokens of the first n parts, for every n. *)
Tokens(parts) ==
    LET First[n \in 0 .. Len(parts)] ==
            IF n = 0 THEN <<>> ELSE First[n - 1] \o PartTokens(parts[n])
    IN  First

Body(r) == Tokens(r.parts)[Len(r.parts)] \o <<Closing>>

VARIABLES
    request,           \* the request of this client
    received,          \* units of the body SSL_read has returned
    content_length,    \* headers["Content-Length"]
    boundary,          \* "X", or "Y" for another; "unknown" before the first record
    buffer_str,        \* what is left of the tokens received
    saved,             \* the files written: their names, contents and success
    phase              \* "first", "reading", "saving", "done"; or "endless",
                       \* "aborted": the worker never gets past the upload

headers == <<content_length, boundary>>
vars == <<request, received, headers, buffer_str, saved, phase>>

Init ==
    /\ request \in Requests
    /\ received = 0
    /\ content_length = None /\ boundary = "unknown"
    /\ buffer_str = <<>>
    /\ saved = <<>>
    /\ phase = "first"

-------------------------------------------------------------------------------
(* The first place of a token of this kind in s, or 0. *)
Find(s, kind) == SelectInSeq(s, LAMBDA token : token.kind = kind)

(* The tokens of s behind the place i. *)
Behind(s, i) == SubSeq(s, i + 1, Len(s))

(***************************************************************************)
(* parse: the line that separates header and body reads "\r" and does not  *)
(* end the loop over the header lines, so that the last Content-Length and *)
(* the last boundary in the record count, be they in the header or the     *)
(* body.                                                                   *)
(***************************************************************************)
parse(record) ==
    LET last == SelectLastInSeq(record, LAMBDA token : token.kind = "length")
    IN  /\ content_length' = IF last # 0 THEN record[last].arg
                             ELSE IF request.announced THEN Len(Body(request))
                             ELSE None
        /\ boundary' = IF Find(record, "multipart") = 0 THEN "X" ELSE "Y"

(* The first SSL_read returns the header and the first n units of the body. *)
FirstRead ==
    /\ phase = "first" /\ phase' = "reading"
    /\ \E n \in 0 .. Len(Body(request)) :
          /\ received' = n
          /\ buffer_str' = SubSeq(Body(request), 1, n)
          /\ parse(buffer_str')
    /\ UNCHANGED <<request, saved>>

(* An off-by-one in the test of the reading loop. *)
IncompleteByTwo == HeaderSize + received + 1 < content_length

(* total_size < Content-Length; total_size includes the header. *)
Incomplete == HeaderSize + received < content_length

ReadMore ==
    /\ phase = "reading" /\ content_length # None /\ Incomplete
    /\ \E n \in received + 1 .. Len(Body(request)) :
          /\ received' = n
          /\ buffer_str' = SubSeq(Body(request), 1, n)
    /\ UNCHANGED <<request, headers, saved, phase>>

(***************************************************************************)
(* The client goes away while the server wants more, be it that it has     *)
(* nothing more to send.  SSL_read returns 0 from now on, and the loop     *)
(* never ends, or a negative number, and append throws.                    *)
(***************************************************************************)
ClientCloses ==
    /\ phase = "reading" /\ content_length # None /\ Incomplete
    /\ phase' \in {"endless", "aborted"}
    /\ UNCHANGED <<request, received, headers, buffer_str, saved>>

(* stoi throws: there is no Content-Length. *)
NoLength ==
    /\ phase = "reading" /\ content_length = None
    /\ phase' = "aborted"
    /\ UNCHANGED <<request, received, headers, buffer_str, saved>>

ReadingEnds ==
    /\ phase = "reading" /\ content_length # None /\ ~Incomplete
    /\ phase' = "saving"
    /\ UNCHANGED <<request, received, headers, buffer_str, saved>>

-------------------------------------------------------------------------------
(* The saving loop *)

(* The place of the first boundary the server knows in s, or 0. *)
FindBoundary(s) == IF boundary = "X" THEN Find(s, "boundary") ELSE 0

(* buffer_str behind that boundary; the end of the part's header in it. *)
Rest == Behind(buffer_str, FindBoundary(buffer_str))
HeadersEnd == Find(Rest, "blank")

FilenameIn(lines) == lines[Find(lines, "part")].arg

(* A mistake for FileContent: the line break before the boundary is kept. *)
FileContentAndBreak(s) ==
    IF FindBoundary(s) = 0 THEN s ELSE SubSeq(s, 1, FindBoundary(s) - 1)

(* The data up to the line break before the next boundary, or all of it. *)
FileContent(s) ==
    IF FindBoundary(s) = 0 THEN s ELSE SubSeq(s, 1, FindBoundary(s) - 2)

(* No boundary, or no end of the part's header behind it: the loop ends. *)
SavingEnds ==
    /\ phase = "saving"
    /\ FindBoundary(buffer_str) = 0 \/ HeadersEnd = 0
    /\ phase' = "done"
    /\ UNCHANGED <<request, received, headers, buffer_str, saved>>

(* One iteration that meets a whole header: the field of a form is skipped,
   a file is written or cannot be opened. *)
SavePart ==
    /\ phase = "saving"
    /\ FindBoundary(buffer_str) # 0 /\ HeadersEnd # 0
    /\ LET filename == FilenameIn(SubSeq(Rest, 1, HeadersEnd - 1))
           data     == Behind(Rest, HeadersEnd)
       IN  \/ /\ filename = None
              /\ buffer_str' = data
              /\ UNCHANGED saved
           \/ /\ filename # None
              /\ buffer_str' = IF FindBoundary(data) = 0 THEN <<>>
                               ELSE Behind(data, FindBoundary(data) - 1)
              /\ \E written \in BOOLEAN :
                    saved' = Append(saved, [filename |-> filename,
                                            content |-> FileContent(data),
                                            written |-> written])
    /\ UNCHANGED <<request, received, headers, phase>>

Next == \/ FirstRead \/ ReadMore \/ ClientCloses \/ NoLength \/ ReadingEnds
        \/ SavePart \/ SavingEnds

Spec == Init /\ [][Next]_vars

-------------------------------------------------------------------------------
(* Correctness *)

IsFile(part) == part.filename # None

(* The files among the first n parts, for every n. *)
FilesOf(parts) ==
    LET First[n \in 0 .. Len(parts)] ==
            IF n = 0 THEN <<>>
            ELSE IF IsFile(parts[n]) THEN Append(First[n - 1], parts[n]) ELSE First[n - 1]
    IN  First

Files == FilesOf(request.parts)[Len(request.parts)]

(***************************************************************************)
(* The files written are the first files of the form, in its order, under  *)
(* their names.  Each but the last has the content that was sent.  The     *)
(* last one is cut where the reading stopped, and runs on to the end of    *)
(* the buffer if no boundary was received behind it: the closing boundary  *)
(* is not recognised and becomes part of the file.  A line of the first    *)
(* record that was taken for the header's boundary loses all files.        *)
(***************************************************************************)
SavedIsSent ==
    /\ Len(saved) <= Len(Files)
    /\ \A i \in DOMAIN saved :
          /\ saved[i].filename = Files[i].filename
          /\ \/ saved[i].content = Files[i].data
             \/ /\ i = Len(saved)
                /\ IsPrefix(saved[i].content, Files[i].data \o <<Crlf, Closing>>)
    /\ boundary = "Y" => saved = <<>>
    /\ phase = "done" /\ received = Len(Body(request)) /\ boundary = "X" =>
          /\ Len(saved) = Len(Files)
          /\ Len(request.parts) > 0 /\ IsFile(Last(request.parts)) =>
                Last(saved).content = Last(Files).data \o <<Crlf, Closing>>

(* The Content-Length the server believes is the one the client sent. *)
Believed == request.announced /\ content_length = Len(Body(request))

(* Where the part behind the first n starts in the body. *)
Start(parts, n) == Len(Tokens(parts)[n])

(***************************************************************************)
(* The reading loop counts the header as part of the body and may stop     *)
(* with as much of the body unread as the header is long.  What that costs *)
(* is the end of the form only: unless a line of the first record was      *)
(* taken for the header's Content-Length or boundary, each file is written *)
(* with exactly its content whose following boundary begins before this    *)
(* tail, wherever the records were cut.                                    *)
(***************************************************************************)
EarlyFilesAreWhole ==
    Believed /\ boundary = "X" /\ phase = "done" =>
        \A n \in 1 .. Len(request.parts) - 1 :
           LET part == request.parts[n]
               i    == Len(FilesOf(request.parts)[n])
           IN  IsFile(part) /\ HeaderSize + Start(request.parts, n) < Len(Body(request)) =>
                   /\ i \in DOMAIN saved
                   /\ saved[i].filename = part.filename
                   /\ saved[i].content = part.data
===============================================================================
