----------------------------- MODULE MCColdGet -----------------------------
(***************************************************************************)
(* ColdGet for TLC.                                                        *)
(***************************************************************************)
EXTENDS ColdGet

\* Every caller chooses among all the modes: the behaviours of GETs alone,
\* for which ColdCache is implemented, are among them.
AllModes == OWT

\* The target has the backends of its own kind and one cloud provider.
SomeProviders == {ProviderAIS, ProviderHTTP, "aws"}

Bucket(provider, remoteNs, props) ==
    [Provider |-> provider, RemoteNs |-> remoteNs, Props |-> props]

\* A bucket of the cloud provider, one of a provider the target was not built
\* with, a bucket of this cluster backed by a cloud bucket, a bucket of
\* another cluster, and an HTTP bucket.
SomeBuckets ==
    {Bucket("aws", FALSE, NoProps), Bucket("gcp", FALSE, NoProps),
     Bucket(ProviderAIS, FALSE, "aws"), Bucket(ProviderAIS, TRUE, NoProps),
     Bucket(ProviderHTTP, FALSE, ProviderHTTP)}

=============================================================================
