------------------------------ MODULE MCPaging ------------------------------
EXTENDS Paging

MCUserPids == 2 .. MaxProc

\* Two pages: the program's text and a stack page.
TwoPages == {1, 2}
\* Three pages: text, data and a stack page.
ThreePages == {1, 2, 3}

Top(pages) == {CHOOSE v \in pages : \A w \in pages : w <= v}
MCStackPages == Top(Vaddrs)
MCWritable == Vaddrs \ {1}
MCInFile == Vaddrs \ Top(Vaddrs)
\* No page of the program is in its file, as when memsz is larger than filesz.
MCNoData == {}
OneValue == {2}
TwoValues == {2, 3}
=============================================================================
