----------------------------- MODULE FileTypes -----------------------------
(***************************************************************************)
(* The type of an uploaded file (services/storage/mime.py) and the loop of *)
(* put_stream that asks for it: chunks of the request's body are collected *)
(* into a head, whose bytes decide the type.                               *)
(*                                                                         *)
(* A file is the facts that detection reads off its bytes; positions are   *)
(* counted in units of which the head holds HeadBytes.                     *)
(***************************************************************************)
EXTENDS Naturals

CONSTANTS
    HeadBytes,      \* _HEAD_BYTES, 8 KiB
    SniffWindow,    \* _TEXT_SNIFF_WINDOW, 4 KiB
    MaxBytes,       \* max_bytes, the upload limit
    Names           \* the extension of the file name a file is uploaded under

ASSUME HeadAssumption ==
    /\ HeadBytes \in Nat /\ SniffWindow \in Nat /\ MaxBytes \in Nat
    /\ 0 < SniffWindow /\ SniffWindow < HeadBytes /\ HeadBytes < MaxBytes
ASSUME NamesAssumption == Names \subseteq {".md", ".html", ".txt", ".pdf", ""}

PDF == "application/pdf"
DOCX == "application/vnd.openxmlformats-officedocument.wordprocessingml.document"
ELF == "application/x-elf"

\* ALLOWED_MIMES, of the types that a file here may have.
ALLOWED_MIMES == {PDF, DOCX, "text/plain", "text/markdown", "text/html"}

\* What libmagic may say: the long tail, or that it cannot tell.
GENERIC_MIMES == {"application/octet-stream", "text/plain"}
LibmagicAnswers == GENERIC_MIMES \cup {"text/xml", "application/zip"}

\* size; the signature of the first bytes; where the entry name "word/" is, and
\* where the first byte that no text has, 0 for nowhere; whether a character
\* of several bytes crosses the end of the sniff window; whether the first
\* word opens an HTML or XML document; and what libmagic says of the head.
Files ==
    {f \in [size : 1..(MaxBytes + 1), signature : {"none", "zip", PDF, ELF},
            marker : {0, 1, HeadBytes, HeadBytes + 1},
            binary : {0, 1, SniffWindow + 1}, crosses : BOOLEAN,
            opens : BOOLEAN, libmagic : LibmagicAnswers] :
        /\ f.marker <= f.size /\ f.binary <= f.size
        /\ f.marker > 0 => f.signature = "zip"
        /\ f.crosses => f.size > SniffWindow
        /\ f.opens => f.signature = "none"
        /\ f.signature \in {PDF, ELF} => f.libmagic = "application/octet-stream"}

NoFile == [size |-> 0]

VARIABLES
    file,       \* the file being uploaded
    name,       \* the extension of its name
    read,       \* what was read of it
    head,       \* how much of it the head holds
    mime        \* "none", the type, or why the upload is refused

fileVars == <<file, name, read, head, mime>>

Refusals == {"unsupported", "too_large"}

FileTypeOK ==
    /\ file = NoFile \/ file \in Files
    /\ name \in Names
    /\ read \in 0..(MaxBytes + 1)
    /\ head \in 0..HeadBytes
    /\ mime \in {"none"} \cup ALLOWED_MIMES \cup Refusals

FileInit ==
    /\ file \in Files
    /\ name \in Names
    /\ read = 0 /\ head = 0 /\ mime = "none"

Least(a, b) == IF a <= b THEN a ELSE b

\* _is_probably_text: no NUL, no controls to speak of and valid UTF-8 in the
\* window.  A character that the window cuts in two is not valid.
IsProbablyText(f, n) ==
    /\ n > 0
    /\ f.binary \notin 1..Least(n, SniffWindow)
    /\ ~(f.crosses /\ n > SniffWindow)

\* _TEXT_EXT_TO_MIME.
TextExtToMime(ext) ==
    CASE ext = ".md" -> "text/markdown"
      [] ext = ".html" -> "text/html"
      [] ext = ".txt" -> "text/plain"
      [] OTHER -> "none"

\* _MIME_ALIASES.
Canonical(type) == IF type = "text/xml" THEN "text/html" ELSE type

\* _match_binary_signature; a zip is only a container.
MatchBinarySignature(f) == IF f.signature \in {PDF, ELF} THEN f.signature ELSE "none"

\* _match_ooxml.
MatchOoxml(f, n) == IF f.marker \in 1..n THEN DOCX ELSE "none"

\* _sniff_text.
SniffText(f, n, ext) ==
    IF ~IsProbablyText(f, n) THEN "none"
    ELSE IF f.opens THEN "text/html"
    ELSE IF TextExtToMime(ext) = "none" THEN "text/plain" ELSE TextExtToMime(ext)

\* Mutant: the extension is believed without looking at the bytes.
LibmagicBelievesNames(f, n, ext) ==
    IF f.libmagic \in GENERIC_MIMES /\ TextExtToMime(ext) # "none"
    THEN TextExtToMime(ext) ELSE Canonical(f.libmagic)

\* _libmagic_lookup.
LibmagicLookup(f, n, ext) ==
    IF /\ Canonical(f.libmagic) \in GENERIC_MIMES
       /\ IsProbablyText(f, n) /\ TextExtToMime(ext) # "none"
    THEN TextExtToMime(ext)
    ELSE Canonical(f.libmagic)

\* _detect_raw, of the file's first n bytes.
DetectRaw(f, n, ext) ==
    IF MatchBinarySignature(f) # "none" THEN MatchBinarySignature(f)
    ELSE LET layer == IF f.signature = "zip" THEN MatchOoxml(f, n) ELSE SniffText(f, n, ext)
         IN  IF layer # "none" THEN layer ELSE LibmagicLookup(f, n, ext)

\* detect_mime.
DetectMime(f, n, ext) ==
    IF n > 0 /\ DetectRaw(f, n, ext) \in ALLOWED_MIMES THEN DetectRaw(f, n, ext)
    ELSE "unsupported"

(***************************************************************************)
(* put_stream                                                              *)
(***************************************************************************)

\* Mutant: the type is taken from the first chunk, full head or not.
ReadsAndDetects(n) ==
    /\ mime = "none" /\ read + n <= file.size
    /\ read' = read + n
    /\ head' = Least(HeadBytes, head + n)
    /\ mime' = IF read' > MaxBytes THEN "too_large" ELSE DetectMime(file, head', name)
    /\ UNCHANGED <<file, name>>

\* A chunk arrives.  The head takes what it has room for, and once it is full
\* the type is decided, before the rest is read.
Reads(n) ==
    /\ mime \notin Refusals /\ read + n <= file.size
    /\ read' = read + n
    /\ IF read' > MaxBytes
       THEN mime' = "too_large" /\ UNCHANGED head
       ELSE /\ head' = Least(HeadBytes, head + n)
            /\ mime' = IF head < HeadBytes /\ head' = HeadBytes
                       THEN DetectMime(file, head', name) ELSE mime
    /\ UNCHANGED <<file, name>>

\* The stream ends; a file that did not fill the head is looked at now.
StreamEnds ==
    /\ file # NoFile /\ mime = "none" /\ read = file.size
    /\ mime' = DetectMime(file, head, name)
    /\ UNCHANGED <<file, name, read, head>>

\* put_stream returns a StoredObject: of the bytes only the type is left.
Returns ==
    /\ file # NoFile /\ mime \in ALLOWED_MIMES /\ read = file.size
    /\ file' = NoFile /\ read' = 0 /\ head' = 0
    /\ UNCHANGED <<name, mime>>

FileNext == (\E n \in 1..(MaxBytes + 1) : Reads(n)) \/ StreamEnds \/ Returns

-----------------------------------------------------------------------------
(***************************************************************************)
(* Properties                                                              *)
(***************************************************************************)

\* "A binary payload renamed to .md must not be promoted to text/markdown": the
\* name a file is uploaded under decides its type only if its bytes are text.
NamesOnlyNameText ==
    file # NoFile /\ mime \in ALLOWED_MIMES /\ ~IsProbablyText(file, Least(file.size, HeadBytes)) =>
        \A other \in Names : DetectMime(file, Least(file.size, HeadBytes), other) = mime

\* How the client cuts the body into chunks changes neither the type nor the
\* key that its extension is part of: it is the type of the first HeadBytes.
ChunksDoNotMatter ==
    file # NoFile /\ mime \notin {"none", "too_large"} =>
        mime = DetectMime(file, Least(file.size, HeadBytes), name)
=============================================================================
