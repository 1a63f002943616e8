------------------------------ MODULE DocumentText -----------------------------
(***************************************************************************)
(* How a document becomes numbered pages of text (app/ingest/chunking.py,  *)
(* ocr.py, docling_backend.py).  A PDF is a sequence of pages; a page has  *)
(* a text layer ("text"), an image only ("scan") or nothing ("blank").     *)
(* What is extracted is a sequence of entries [page, read], read being     *)
(* FALSE for the entry of a page that gave no text.  The environment in    *)
(* says which libraries are installed and at which page each of them       *)
(* fails: 0 when it cannot open the file, a number past the last page when *)
(* it never fails.                                                         *)
(***************************************************************************)
EXTENDS Integers, Sequences, SequencesExt

Entry(n, read) == [page |-> n, read |-> read]
Failed(entries) == [ok |-> FALSE, entries |-> entries]
Done(entries) == [ok |-> TRUE, entries |-> entries]
GaveText(entries) == \E i \in DOMAIN entries : entries[i].read

(* The entries of the pages 1 .. last that are kept, with their text.      *)
EntriesOf(last, kept, read) ==
    SelectSeq([n \in 1 .. last |-> Entry(n, n \in read)], LAMBDA e : e.page \in kept)

(* The pages before the one an extractor fails at.                         *)
UntilFailure(last, fails, kept) ==
    [ok |-> fails > last,
     entries |-> EntriesOf(last, {n \in kept : n < fails}, kept)]

Textual(in) == {n \in DOMAIN in.pages : in.pages[n] = "text"}

-----------------------------------------------------------------------------
(* iter_pdf_pages_with_ocr: renders and reads the pages one by one, stops  *)
(* without an error at the page limit or at the timeout, and gives an      *)
(* empty entry for a page it cannot render or read.                        *)
OcrReady(in) == in.tesseract /\ in.pdfium /\ in.ocrFault # "open"

OcrPages(in) ==
    EntriesOf(in.ocrPages, DOMAIN in.pages,
              {n \in DOMAIN in.pages \ in.ocrMisses : in.pages[n] # "blank"})

(* _iter_pdf_text_pymupdf: the text layer, else OCR of the page image.     *)
MuPdfReads(in, n) == \/ in.pages[n] = "text"
                     \/ in.pages[n] = "scan" /\ in.tesseract

MuPdf(in) == UntilFailure(Len(in.pages), in.mupdf, {n \in DOMAIN in.pages : MuPdfReads(in, n)})

(* _iter_pdf_text_pdfminer and the PdfReader branch: the text layer only.  *)
LayerText(in) == UntilFailure(Len(in.pages), in.layer, Textual(in))

(* _iter_pdf_text: PyMuPDF if it finds any page; then pdfminer, whose own  *)
(* error ends the parse; pypdf only where pdfminer is not installed.  The  *)
(* pages PyMuPDF gave before it failed have been given already.            *)
Found(read) == read.ok /\ read.entries # <<>>
FoundOrFailed(read) == [read EXCEPT !.ok = Found(read)]
FoundOr(read, next) ==
    IF Found(read) THEN read ELSE [next EXCEPT !.entries = read.entries \o @]

LayerBackends(in) ==
    CASE "pdfminer" \in in.installed -> LayerText(in)
      [] in.installed \cap {"pdfminer", "pypdf"} = {"pypdf"} -> FoundOrFailed(LayerText(in))
      [] OTHER -> Failed(<<>>)

\* Mutant: PyMuPDF is not tried again by another backend once it failed.
GiveUp(in) == Failed(MuPdf(in).entries)

PdfText(in) ==
    FoundOr(IF "pymupdf" \in in.installed THEN MuPdf(in) ELSE Failed(<<>>), LayerBackends(in))

(* _iter_pdf_pages: OCR first.  Leading empty pages are held back until a  *)
(* page gives text; if none does, or OCR is not available, the text        *)
(* extractors take over.  An unexpected error can only come from opening   *)
(* the document, before any page: all text pages follow it.                *)
\* Mutant: the empty pages held back are dropped.
PdfPagesReadOnly(in) ==
    IF OcrReady(in) /\ in.ocrFault = "none" /\ GaveText(OcrPages(in))
    THEN Done(SelectSeq(OcrPages(in), LAMBDA e : e.read)) ELSE PdfText(in)

PdfPages(in) ==
    IF OcrReady(in) /\ in.ocrFault = "none" /\ GaveText(OcrPages(in))
    THEN Done(OcrPages(in)) ELSE PdfText(in)

-----------------------------------------------------------------------------
(* DoclingBackend: the first of three conversions that succeeds; pages     *)
(* with text, or the whole document as page 1; at most max_pages of them.  *)
DoclingConverts(in) == \E attempt \in 1 .. 3 : attempt \notin in.doclingFails

Capped(entries, most) ==
    IF most > 0 /\ most < Len(entries) THEN SubSeq(entries, 1, most) ELSE entries
DoclingPages(in) ==
    Capped(IF \A n \in DOMAIN in.pages : in.pages[n] # "text"
           THEN IF in.doclingWhole THEN <<Entry(1, TRUE)>> ELSE <<>>
           ELSE EntriesOf(Len(in.pages), Textual(in), Textual(in)),
           in.maxPages)

(* _resolve_parser_backend: "auto" does not look at DOCLING_ENABLED.       *)
ParserBackend(in) ==
    IF /\ in.backend \in {"docling", "auto"}
       /\ in.backend = "docling" => in.doclingEnabled
       /\ "docling" \in in.installed
    THEN "docling" ELSE "legacy"

(* parse_document of a PDF: Docling when it is chosen and converts, the    *)
(* legacy parsers when it fails or gives nothing.  used is the backend the *)
(* chunks name as their provenance.                                        *)
Parsed(backend, docling, legacy) ==
    [used |-> backend, ok |-> docling # <<>> \/ legacy.ok,
     entries |-> IF docling # <<>> THEN docling ELSE legacy.entries]
ParseDocument(in) ==
    IF ParserBackend(in) = "docling" /\ DoclingConverts(in)
    THEN Parsed("docling", DoclingPages(in), PdfPages(in))
    ELSE Parsed("legacy", <<>>, PdfPages(in))

(* _iter_docx_text, _iter_txt_text: paragraphs are joined until a page is  *)
(* longer than its limit.  sizes are the lengths of the paragraphs; the    *)
(* result is the page each one is on, 0 for an empty one.                  *)
PlainPages(sizes, limit) ==
    LET Place(state, size) ==
            IF size = 0 THEN [state EXCEPT !.of = Append(@, 0)]
            ELSE LET held == state.held + size + IF state.held > 0 THEN 1 ELSE 0
                 IN  [of |-> Append(state.of, state.page),
                      held |-> IF held > limit THEN 0 ELSE held,
                      page |-> IF held > limit THEN state.page + 1 ELSE state.page]
    IN  FoldLeft(Place, [of |-> <<>>, held |-> 0, page |-> 1], sizes).of

(* kb_mvp _parse_file_bytes_with_pages: a text file is one page, decoded   *)
(* as UTF-8, else as cp1251, else as latin-1, which takes any bytes (the   *)
(* utf-8-sig between them is never reached: UTF-8 accepts the mark and     *)
(* keeps it).  Other formats are parsed; pages without text are dropped    *)
(* and the others keep their numbers.  A parser that raises is a 422.      *)
Decoded(bytes) ==
    CASE bytes \in {"ascii", "utf8", "utf8_mark"} -> "utf-8"
      [] bytes = "cp1251" -> "cp1251"
      [] OTHER -> "latin-1"

KbPages(file, parsed) ==
    IF file.kind = "text"
    THEN [ok |-> TRUE, decoded |-> Decoded(file.bytes),
          entries |-> IF file.blank THEN <<>> ELSE <<Entry(1, TRUE)>>]
    ELSE [ok |-> parsed.ok, decoded |-> "parser",
          entries |-> IF parsed.ok THEN SelectSeq(parsed.entries, LAMBDA e : e.read)
                      ELSE <<>>]

-----------------------------------------------------------------------------
(* Inputs the runs enumerate: every page sequence of the given length and  *)
(* every combination of installed libraries and of pages they fail at.     *)
PdfInputs(last) ==
    [pages : [1 .. last -> {"text", "scan", "blank"}],
     tesseract : BOOLEAN, pdfium : BOOLEAN, ocrFault : {"none", "open", "other"},
     ocrMisses : SUBSET (1 .. last), ocrPages : 0 .. last,
     installed : {{}, {"pymupdf"}, {"pdfminer"}, {"pypdf"}, {"pymupdf", "pdfminer"},
                  {"pymupdf", "pypdf"}},
     mupdf : 0 .. (last + 1), layer : 0 .. (last + 1),
     backend : {"legacy"}, doclingEnabled : {FALSE}, doclingFails : {{}},
     doclingWhole : {FALSE}, maxPages : {0}]

DoclingInputs(last) ==
    [pages : [1 .. last -> {"text", "scan", "blank"}],
     tesseract : BOOLEAN, pdfium : {TRUE}, ocrFault : {"none"}, ocrMisses : {{}},
     ocrPages : {last}, installed : SUBSET {"docling", "pymupdf"},
     mupdf : {0, last + 1}, layer : {last + 1},
     backend : {"docling", "auto"}, doclingEnabled : BOOLEAN,
     doclingFails : SUBSET (1 .. 3), doclingWhole : BOOLEAN, maxPages : 0 .. 1]

KbFiles == [kind : {"text", "rich"}, blank : BOOLEAN,
            bytes : {"ascii", "utf8", "utf8_mark", "cp1251", "other"}]

Pages(result) == [i \in DOMAIN result.entries |-> result.entries[i].page]
Increasing(s) == \A i, j \in DOMAIN s : i < j => s[i] < s[j]

(* A citation names the page its text is on, and a document with text is   *)
(* not taken for an empty one: parse_document gives pages in order and     *)
(* each once, unless PyMuPDF failed after its first pages; when OCR reads  *)
(* a page, its unreadable neighbours keep their places; and as long as     *)
(* PyMuPDF works, a PDF with a text layer gives some text.                 *)
AreTheirs(result, in) ==
        /\ result.ok /\ (in.mupdf \in {0, Len(in.pages) + 1} \/ "pymupdf" \notin in.installed)
               => Increasing(Pages(result))
        /\ \A i \in DOMAIN result.entries :
               result.entries[i].read /\ ~(in.doclingWhole /\ result.used = "docling")
                   => in.pages[result.entries[i].page] # "blank"
        /\ result.used = "legacy" /\ OcrReady(in) /\ in.ocrFault = "none"
           /\ GaveText(OcrPages(in))
               => Pages(result) = [n \in 1 .. in.ocrPages |-> n]
        /\ "pymupdf" \in in.installed /\ in.mupdf > Len(in.pages)
           /\ (\E n \in DOMAIN in.pages : in.pages[n] = "text")
               => result.ok /\ GaveText(result.entries)
PagesAreTheirs(in) == AreTheirs(ParseDocument(in), in)

(* The MVP upload stores the pages the parser read and no other, under the *)
(* numbers the original has, so that a source link opens the right page;   *)
(* and no text file is refused for its encoding.                           *)
KeepNumbers(kept, result, file, in) ==
        /\ file.kind = "text" => kept.ok
        /\ file.kind = "rich" /\ result.ok =>
               /\ Range(kept.entries) = {e \in Range(result.entries) : e.read}
               /\ Increasing(Pages(result)) => Increasing(Pages(kept))
               /\ \A i \in DOMAIN kept.entries :
                      \/ in.pages[kept.entries[i].page] # "blank"
                      \/ in.doclingWhole /\ result.used = "docling"
StoredPagesKeepNumbers(file, in) ==
    KeepNumbers(KbPages(file, ParseDocument(in)), ParseDocument(in), file, in)

(* Paragraphs stay in order, no page is skipped, and a page ends with the  *)
(* paragraph that makes it too long.                                       *)
ParagraphsKeepOrder(sizes, limit) ==
    LET of == SelectSeq(PlainPages(sizes, limit), LAMBDA p : p # 0)
    IN  /\ Len(of) > 0 => of[1] = 1
        /\ \A i \in 1 .. (Len(of) - 1) : of[i + 1] \in {of[i], of[i] + 1}
=============================================================================
