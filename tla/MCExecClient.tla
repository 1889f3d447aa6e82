---------------------------- MODULE MCExecClient ----------------------------
EXTENDS ExecClient
=============================================================================
