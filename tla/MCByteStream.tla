---------------------------- MODULE MCByteStream ----------------------------
EXTENDS ByteStream, SequencesExt

CONSTANT MaxInput   \* longest string offered to write

MCInputs == BoundedSeq(Byte, MaxInput)
=============================================================================
