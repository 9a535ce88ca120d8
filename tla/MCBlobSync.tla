------------------------------ MODULE MCBlobSync ------------------------------
EXTENDS BlobSync

\* A directory, plain and encrypted, an S3 bucket, and a WebDAV server without
\* ETags and times.
MCSetups == [backend : {"file"}, encrypted : BOOLEAN]
            \cup [backend : {"etag", "bare"}, encrypted : {FALSE}]

=============================================================================
