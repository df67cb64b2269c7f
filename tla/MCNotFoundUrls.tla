--------------------------- MODULE MCNotFoundUrls ---------------------------
EXTENDS NotFoundUrls
=============================================================================
