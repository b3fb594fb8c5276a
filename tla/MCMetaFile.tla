----------------------------- MODULE MCMetaFile -----------------------------
EXTENDS MetaFile
=============================================================================
