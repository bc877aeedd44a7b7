-------------------------- MODULE MCUpstreamRecord --------------------------
EXTENDS UpstreamRecord, TLC

\* Sound where every label is recorded: nothing then tells two labels apart.
LabelSymmetry == Permutations(Labels)
=============================================================================
