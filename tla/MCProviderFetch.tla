-------------------------- MODULE MCProviderFetch --------------------------
EXTENDS ProviderFetch

\* One status, or two, for each way the code tells statuses apart.
MCStatuses == {200, 204, 401, 403, 404, 405, 429, 500}
=============================================================================
