---------------------------- MODULE MCExtraction ----------------------------
EXTENDS Extraction

Single(fmt, ext) ==
    [fmt |-> fmt, sig |-> IF fmt \in Engines THEN fmt ELSE "none", ext |-> ext, has |-> {},
     ident |-> 1, usual |-> TRUE, entries |-> 0, parts |-> <<>>, spine |-> 0]

Package(fmt, ext, has, ident, usual, entries, parts) ==
    [fmt |-> fmt, sig |-> "zip", ext |-> ext, has |-> has, ident |-> ident, usual |-> usual,
     entries |-> entries, parts |-> parts, spine |-> Len(parts)]

Part(size, name) == [size |-> size, name |-> name]
Opc == {"rels", "types", "paths"}

\* The last part is none of those meant to be read.
WithAside(f) == [f EXCEPT !.spine = Len(f.parts) - 1]

\* A workbook's sheets come after its strings; slide 10 has a name before slide
\* 2's; chapters are named as their author likes, and so is their navigation.
MCFiles ==
    {Single("html", "html"), Single("rtf", "rtf"), Single("eml", "eml"), Single("pdf", Unknown),
     Single("image", "pdf"), Single("heic", "heic"), [Single("rtf", "docx") EXCEPT !.fmt = "docx"],
     Single("html", Unknown),
     Package("docx", "pdf", Opc, 1, TRUE, 3, <<Part(2, 1)>>),
     Package("docx", "docx", {"rels", "types"}, 1, FALSE, 3, <<Part(1, 1)>>),
     Package("docx", "docx", Opc, 1, TRUE, 3, <<Part(3, 1)>>),
     Package("docx", "docx", Opc, 1, TRUE, 5, <<Part(1, 1)>>),
     Package("docx", "docx", Opc, 3, FALSE, 3, <<Part(1, 1)>>),
     Package("odf", "docx", {"mimetype"}, 1, TRUE, 2, <<Part(1, 1)>>),
     Package("odf", "odf", {}, 1, TRUE, 2, <<Part(1, 1)>>),
     Package("xlsx", Unknown, {"types", "paths"}, 2, TRUE, 4, <<Part(1, 1), Part(1, 2), Part(1, 3)>>),
     Package("xlsx", "xlsx", Opc, 1, TRUE, 4, <<Part(2, 1), Part(1, 2), Part(2, 3)>>),
     Package("pptx", "pptx", Opc, 2, FALSE, 4, <<Part(1, 1), Part(1, 3), Part(1, 2)>>),
     Package("pptx", "epub", Opc, 1, TRUE, 4, <<Part(1, 1), Part(1, 2)>>),
     Package("pptx", "pptx", Opc, 1, TRUE, 4, <<Part(2, 1), Part(2, 2)>>),
     Package("epub", Unknown, {"mimetype"}, 1, TRUE, 3, <<Part(2, 1), Part(1, 2)>>),
     Package("epub", "epub", {"mimetype"}, 1, TRUE, 3, <<Part(1, 2), Part(1, 1)>>),
     WithAside(Package("epub", "epub", {"mimetype"}, 1, TRUE, 4, <<Part(1, 1), Part(1, 3), Part(1, 2)>>)),
     WithAside(Package("epub", "epub", {"mimetype"}, 1, TRUE, 4, <<Part(1, 3), Part(1, 2), Part(1, 1)>>)),
     WithAside(Package("epub", "epub", {"mimetype"}, 1, TRUE, 2, <<Part(1, 1)>>))}

\* A table within a table takes 14 elements, two rows of two cells 12 and more.
MCTokens == [k \in Kinds |-> CASE k = "docx" -> 16 [] k = "xlsx" -> 8 [] k = "eml" -> 7
                               [] OTHER -> 8]
=============================================================================
