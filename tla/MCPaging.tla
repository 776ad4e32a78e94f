------------------------------ MODULE MCPaging ------------------------------
EXTENDS Paging

\* Two pages of one directory entry, one of another
MCClientPages == {<<3, 0>>, <<3, 1>>, <<4, 0>>}
=============================================================================
