---------------------------- MODULE MCPageImages ----------------------------
EXTENDS PageImages
=============================================================================
