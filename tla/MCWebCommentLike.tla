--------------------------- MODULE MCWebCommentLike ---------------------------
\* WebCommentLike on its own.
EXTENDS WebCommentLike
=============================================================================
