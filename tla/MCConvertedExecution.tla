------------------------- MODULE MCConvertedExecution -------------------------
EXTENDS ConvertedExecution, MCBranchConversion
=============================================================================
