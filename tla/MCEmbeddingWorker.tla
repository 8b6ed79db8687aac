-------------------------- MODULE MCEmbeddingWorker --------------------------
EXTENDS EmbeddingWorker
=============================================================================
