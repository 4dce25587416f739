-------------------------- MODULE MCPageViewBinding --------------------------
EXTENDS PageViewBinding
=============================================================================
